---- MODULE Spec2Model ----
(***************************************************************************)
(* Model of the LeadsMap drill-down navigation (components/LeadsMap/       *)
(* index.tsx), the county boundary loader hook (hooks/useCountySelection   *)
(* .ts, second definition with lazy loading), the boundary fetch with its  *)
(* module cache (lib/nominatim) and the DMA containment tests (lib/dma.ts).*)
(*                                                                         *)
(* Scheduling: JavaScript's single-threaded event loop.  Every action is   *)
(* one macrotask (a UI event, a timer, a network completion) together with *)
(* all the synchronous code and promise continuations it triggers.         *)
(* React state: a handler invoked by a UI event belongs to the latest      *)
(* render and so reads the current state; a timer callback and a running   *)
(* drain keep the countyBoundaries / loadingBoundaries values of the       *)
(* render that created them (fields snapB, snapL).                         *)
(*                                                                         *)
(* Coordinates and distances are integers in units of half a degree.       *)
(***************************************************************************)
EXTENDS Integers, Sequences, FiniteSets, Bags, TLC

\* ---------------------------------------------------------------- bounds
MaxEvents == 3      \* user events (map moves, clicks) in one behaviour
MaxFailures == 1    \* fetches answered without a boundary in one behaviour
MaxTime == 6        \* minutes the clock runs in one behaviour

\* ------------------------------------------------------ program constants
ZoomEnter == 8               \* index.tsx: newViewport.zoom >= 8
ZoomExit == 6                \* index.tsx: newViewport.zoom < 6
Padding == 1                 \* const padding = 0.5 (degrees), isInViewportBounds
HighDistance == 2            \* distance < 1 (degree) ? 'high' : 'medium'
HighBatch == 3
MediumBatch == 2
LowBatch == 1
HighDelay == 100
MediumDelay == 200
LowDelay == 500
CacheTTL == 5                \* api.ts: set(filters, data, ttlMinutes = 5)

None == "none"            \* null / undefined where the value is a name
NoDistance == 0 - 1       \* job.distance undefined (real distances are >= 0)
NoViewport == <<>>        \* optional viewport argument left out; else <<info>>
NoGeometry == [type |-> "null", coordinates |-> <<>>]   \* feature.geometry null

\* ------------------------------------------------------------ geometry
\* Math.min, Math.max on integers
Min2(a, b) == IF a <= b THEN a ELSE b
Max2(a, b) == IF a >= b THEN a ELSE b

\* JavaScript numbers as far as calculateGeometry needs them: exact
\* quotients, the two infinities and NaN
Number(n) == [kind |-> "number", num |-> n, den |-> 1]
Infinity == [kind |-> "Infinity", num |-> 1, den |-> 0]
NegInfinity == [kind |-> "-Infinity", num |-> 0 - 1, den |-> 0]
NaN == [kind |-> "NaN", num |-> 0, den |-> 0]

\* a <= b on JavaScript numbers (every comparison with NaN is false)
LessEq(a, b) ==
  IF a.kind = "NaN" \/ b.kind = "NaN" THEN FALSE
  ELSE IF a.kind = "-Infinity" \/ b.kind = "Infinity" THEN TRUE
  ELSE IF a.kind = "Infinity" \/ b.kind = "-Infinity" THEN FALSE
  ELSE a.num * b.den <= b.num * a.den

\* Math.min(a, b), Math.max(a, b)
MathMin(a, b) ==
  IF a.kind = "NaN" \/ b.kind = "NaN" THEN NaN
  ELSE IF LessEq(a, b) THEN a ELSE b
MathMax(a, b) ==
  IF a.kind = "NaN" \/ b.kind = "NaN" THEN NaN
  ELSE IF LessEq(a, b) THEN b ELSE a

\* a + b
Plus(a, b) ==
  IF a.kind = "NaN" \/ b.kind = "NaN" THEN NaN
  ELSE IF a.kind = "number" /\ b.kind = "number"
       THEN [kind |-> "number", num |-> a.num * b.den + b.num * a.den,
             den |-> a.den * b.den]
  ELSE IF a.kind = "number" THEN b
  ELSE IF b.kind = "number" THEN a
  ELSE IF a.kind = b.kind THEN a ELSE NaN

\* a / 2
Half(a) ==
  IF a.kind = "number" THEN [a EXCEPT !.den = @ * 2] ELSE a

\* minLng / minLat after processCoordinates has visited the pairs of s
\* (k = 1 for lng, 2 for lat), starting from Infinity
RECURSIVE FoldMin(_, _)
FoldMin(s, k) ==
  IF s = <<>> THEN Infinity
  ELSE MathMin(FoldMin(SubSeq(s, 1, Len(s) - 1), k), Number(s[Len(s)][k]))

\* maxLng / maxLat likewise, starting from -Infinity
RECURSIVE FoldMax(_, _)
FoldMax(s, k) ==
  IF s = <<>> THEN NegInfinity
  ELSE MathMax(FoldMax(SubSeq(s, 1, Len(s) - 1), k), Number(s[Len(s)][k]))

RECURSIVE Flatten(_)
Flatten(ss) == IF ss = <<>> THEN <<>> ELSE Head(ss) \o Flatten(Tail(ss))

\* the coordinate pairs processCoordinates visits, in order; none when the
\* feature has no geometry
AllCoordinates(geometry) ==
  IF geometry.type = "null" THEN <<>>
  ELSE IF geometry.type = "Polygon" THEN Flatten(geometry.coordinates)
  ELSE Flatten([p \in 1..Len(geometry.coordinates) |->
                    Flatten(geometry.coordinates[p])])

\* dma.ts calculateGeometry: bounding box of all coordinates and its midpoint
calculateGeometry(feature) ==
  LET cs == AllCoordinates(feature.geometry)
      minLng == FoldMin(cs, 1)   maxLng == FoldMax(cs, 1)
      minLat == FoldMin(cs, 2)   maxLat == FoldMax(cs, 2)
  IN [bounds |-> [southwest |-> <<minLng, minLat>>,
                  northeast |-> <<maxLng, maxLat>>],
      center |-> <<Half(Plus(minLng, maxLng)), Half(Plus(minLat, maxLat))>>]

\* one edge test of the ray casting loop:
\*   ((yi > y) !== (yj > y)) && (x < (xj - xi) * (y - yi) / (yj - yi) + xi)
\* the division is exact: both sides are multiplied by (yj - yi)
EdgeCrossed(x, y, pi, pj) ==
  LET xi == pi[1]  yi == pi[2]  xj == pj[1]  yj == pj[2]
      num == (xj - xi) * (y - yi)
      den == yj - yi
  IN /\ (yi > y) # (yj > y)
     /\ IF den > 0 THEN (x - xi) * den < num ELSE (x - xi) * den > num

RECURSIVE CrossCount(_, _, _)
CrossCount(point, polygon, i) ==
  IF i > Len(polygon) THEN 0
  ELSE LET j == IF i = 1 THEN Len(polygon) ELSE i - 1 IN
       (IF EdgeCrossed(point[1], point[2], polygon[i], polygon[j]) THEN 1 ELSE 0)
         + CrossCount(point, polygon, i + 1)

\* dma.ts pointInPolygon: inside is toggled once per crossed edge
pointInPolygon(point, polygon) == CrossCount(point, polygon, 1) % 2 = 1

\* the for loop of pointInFeature over the polygons of a MultiPolygon, from
\* polygon p on.  polygon[0] of a polygon without a ring is undefined and
\* pointInPolygon reads its length: a TypeError
RECURSIVE AnyPolygon(_, _, _)
AnyPolygon(point, coords, p) ==
  IF p > Len(coords) THEN "false"
  ELSE IF coords[p] = <<>> THEN "TypeError"
  ELSE IF pointInPolygon(point, coords[p][1]) THEN "true"
  ELSE AnyPolygon(point, coords, p + 1)

\* faulty variant of pointInFeature: a point inside an interior ring is outside
pointInFeatureWithHoles(point, feature) ==
  IF feature.geometry.type = "null" THEN "false"
  ELSE IF feature.geometry.type = "Polygon"
       THEN LET coords == feature.geometry.coordinates IN
            IF coords = <<>> THEN "TypeError"
            ELSE IF /\ pointInPolygon(point, coords[1])
                    /\ \A r \in 2..Len(coords) : ~pointInPolygon(point, coords[r])
                 THEN "true" ELSE "false"
  ELSE IF feature.geometry.type = "MultiPolygon"
       THEN AnyPolygon(point, feature.geometry.coordinates, 1)
  ELSE "false"

\* dma.ts pointInFeature: exterior ring only; any polygon of a MultiPolygon.
\* The outcome is "true", "false" or, where the call throws, "TypeError":
\* coords[0] of a Polygon without a ring is undefined
pointInFeature(point, feature) ==
  IF feature.geometry.type = "null" THEN "false"
  ELSE IF feature.geometry.type = "Polygon"
       THEN LET coords == feature.geometry.coordinates IN
            IF coords = <<>> THEN "TypeError"
            ELSE IF pointInPolygon(point, coords[1]) THEN "true" ELSE "false"
  ELSE IF feature.geometry.type = "MultiPolygon"
       THEN AnyPolygon(point, feature.geometry.coordinates, 1)
  ELSE "false"

\* ------------------------------------------------------ the static world
\* dma.json: two markets.  Market A is L-shaped (its bounding box is larger
\* than its area), market B is a rectangle east of it.
FeatureA ==
  [id |-> "A",
   geometry |-> [type |-> "Polygon",
                 coordinates |-> << << <<0, 0>>, <<8, 0>>, <<8, 6>>, <<4, 6>>,
                                       <<4, 12>>, <<0, 12>>, <<0, 0>> >> >>]]
FeatureB ==
  [id |-> "B",
   geometry |-> [type |-> "Polygon",
                 coordinates |-> << << <<10, 0>>, <<18, 0>>, <<18, 8>>,
                                       <<10, 8>>, <<10, 0>> >> >>]]

Features == <<FeatureA, FeatureB>>

\* dma.ts getProcessedDMAData, the map over featureCollection.features
dmaData(features) ==
  [n \in 1..Len(features) |->
     [id |-> features[n].id,
      feature |-> features[n],
      bounds |-> calculateGeometry(features[n]).bounds,
      center |-> calculateGeometry(features[n]).center]]

\* dma.ts getProcessedDMAData on the topology of dma.json
getProcessedDMAData == dmaData(Features)

DMAIds == {getProcessedDMAData[n].id : n \in 1..Len(getProcessedDMAData)}

\* countyData (aggregateDataByCounty of the loaded lead data)
countyData ==
  << [countyName |-> "a1", stateName |-> "S", coordinates |-> <<2, 3>>],
     [countyName |-> "a2", stateName |-> "S", coordinates |-> <<2, 5>>],
     [countyName |-> "b1", stateName |-> "S", coordinates |-> <<14, 3>>],
     [countyName |-> "x1", stateName |-> "S", coordinates |-> <<6, 8>>],
     [countyName |-> "x2", stateName |-> "S", coordinates |-> <<6, 9>>],
     [countyName |-> "x3", stateName |-> "S", coordinates |-> <<7, 8>>],
     [countyName |-> "x4", stateName |-> "S", coordinates |-> <<5, 8>>] >>

\* `${countyName}, ${stateName}`
countyKey(c) == <<c.countyName, c.stateName>>
Keys == {countyKey(countyData[n]) : n \in 1..Len(countyData)}


\* ------------------------------------------------------------- viewports
\* view states the map reports: zoomed out below the exit threshold, between
\* the thresholds, and at the entry threshold over market A, over market B
\* and over no market (inside the bounding box of A)
Viewports ==
  {[zoom |-> 5, center |-> <<2, 2>>],
   [zoom |-> 6, center |-> <<2, 2>>],
   [zoom |-> 8, center |-> <<2, 2>>],
   [zoom |-> 8, center |-> <<14, 4>>],
   [zoom |-> 8, center |-> <<6, 8>>]}

\* the map's visible box (mapRef.current.getBounds()) for a view state
HalfExtent(zoom) == IF zoom >= 8 THEN 2 ELSE IF zoom >= 6 THEN 8 ELSE 16
viewportInfo(v) ==
  [center |-> v.center,
   bounds |-> [sw |-> <<v.center[1] - HalfExtent(v.zoom),
                        v.center[2] - HalfExtent(v.zoom)>>,
               ne |-> <<v.center[1] + HalfExtent(v.zoom),
                        v.center[2] + HalfExtent(v.zoom)>>]]

\* ------------------------------------------------- useCountySelection.ts
\* calculateDistance returns sqrt(dx*dx + dy*dy); the model keeps the square
\* (in model units), which orders and compares the same way.
calculateDistance(point, viewCenter) ==
  (point[1] - viewCenter[1]) * (point[1] - viewCenter[1])
    + (point[2] - viewCenter[2]) * (point[2] - viewCenter[2])

\* faulty variant of isInViewportBounds: no padding around the viewport
isInViewportBoundsUnpadded(point, viewport) ==
  /\ point[1] >= viewport.bounds.sw[1]
  /\ point[1] <= viewport.bounds.ne[1]
  /\ point[2] >= viewport.bounds.sw[2]
  /\ point[2] <= viewport.bounds.ne[2]

isInViewportBounds(point, viewport) ==
  /\ point[1] >= viewport.bounds.sw[1] - Padding
  /\ point[1] <= viewport.bounds.ne[1] + Padding
  /\ point[2] >= viewport.bounds.sw[2] - Padding
  /\ point[2] <= viewport.bounds.ne[2] + Padding

\* the classification shared by prioritizeCounties and updateViewportPriority
classify(point, viewport) ==
  IF isInViewportBounds(point, viewport)
  THEN IF calculateDistance(point, viewport.center)
            < HighDistance * HighDistance
       THEN "high" ELSE "medium"
  ELSE "low"

prioritizeCounties(counties, viewport) ==
  [n \in 1..Len(counties) |->
     IF viewport = NoViewport
     THEN [countyKey |-> countyKey(counties[n]),
           coordinates |-> counties[n].coordinates,
           priority |-> "medium",
           distance |-> NoDistance]
     ELSE [countyKey |-> countyKey(counties[n]),
           coordinates |-> counties[n].coordinates,
           priority |-> classify(counties[n].coordinates, viewport[1]),
           distance |-> calculateDistance(counties[n].coordinates,
                                          viewport[1].center)]]

priorityOrder(p) == IF p = "high" THEN 0 ELSE IF p = "medium" THEN 1 ELSE 2

\* the comparator of processLoadingQueue: a before b iff Compare(a, b) < 0
Compare(a, b) ==
  IF priorityOrder(a.priority) # priorityOrder(b.priority)
  THEN priorityOrder(a.priority) - priorityOrder(b.priority)
  ELSE (IF a.distance = NoDistance THEN 0 ELSE a.distance)
         - (IF b.distance = NoDistance THEN 0 ELSE b.distance)

\* Array.prototype.sort is stable: insert after the last element not greater
RECURSIVE Insert(_, _)
Insert(sorted, job) ==
  IF sorted = <<>> THEN <<job>>
  ELSE IF Compare(job, sorted[Len(sorted)]) >= 0 THEN Append(sorted, job)
  ELSE Append(Insert(SubSeq(sorted, 1, Len(sorted) - 1), job),
              sorted[Len(sorted)])

RECURSIVE SortQueue(_)
SortQueue(queue) ==
  IF queue = <<>> THEN <<>>
  ELSE Insert(SortQueue(SubSeq(queue, 1, Len(queue) - 1)), queue[Len(queue)])

QueueKeys(queue) == {queue[n].countyKey : n \in 1..Len(queue)}

\* faulty variant of UniqueQueue: a key keeps its first entry
UniqueQueueFirst(queue) ==
  LET firsts == SelectSeq([n \in 1..Len(queue) |-> n],
                          LAMBDA n : \A m \in 1..(n - 1) :
                                       queue[m].countyKey # queue[n].countyKey)
  IN [n \in 1..Len(firsts) |-> queue[firsts[n]]]

\* Array.from(new Map(queue.map(job => [job.countyKey, job])).values()):
\* a key keeps the position of its first entry and the value of its last
UniqueQueue(queue) ==
  LET firsts == SelectSeq([n \in 1..Len(queue) |-> n],
                          LAMBDA n : \A m \in 1..(n - 1) :
                                       queue[m].countyKey # queue[n].countyKey)
      lastOf(k) == CHOOSE n \in 1..Len(queue) :
                     /\ queue[n].countyKey = k
                     /\ \A m \in (n + 1)..Len(queue) : queue[m].countyKey # k
  IN [n \in 1..Len(firsts) |-> queue[lastOf(queue[firsts[n]].countyKey)]]


\* ---------------------------------------------------- state of the program
VARIABLES
  selectedDMA,            \* index.tsx: id of the active DMA, or None
  isZoomedToDMA,          \* index.tsx
  showCountiesInDMA,      \* index.tsx
  viewport,               \* index.tsx: last view state reported by the map
  timers,                 \* pending setTimeout callbacks of handleDMAClick
  selectedCounties,       \* selectionState.selectedCounties
  countyBoundaries,       \* keys of the Map countyBoundaries
  boundaryValue,          \* its values: the response whose boundary is stored, 0 = no entry
  loadingBoundaries,      \* the Set loadingBoundaries
  lazyLoadingState,       \* isLoading, loadedCount, totalCount, currentPriority
  loadingQueue,           \* loadingQueueRef.current
  isProcessingQueue,      \* isProcessingQueueRef.current
  abortController,        \* abortControllerRef.current: "null", "active", "aborted"
  drains,                 \* suspended runs of processLoadingQueue
  directFetches,          \* network fetches of selectCounty in flight (bag of keys)
  cache,                  \* nominatim COUNTY_BOUNDARY_CACHE (its keys)
  responses,              \* its values: the number of the latest response with a boundary
  fetchCount,             \* history: network requests sent so far, per key
  client,                 \* the job list and viewport a caller of the hook submits
  returned,               \* what the last call of a function with a result returned
  lastOp,                 \* history: the handler that ran last and its branch
  events,                 \* history: number of user events so far
  failures,               \* history: number of fetches that found no boundary
  filters,                \* useFilters: the filters state given to useMapData
  mapData,                \* useMapData: data, loading, error
  apiCache,               \* api.ts apiCache: key -> <<>> or <<[data, timestamp, ttl]>>
  now,                    \* Date.now(), in minutes
  mapRequests,            \* fetchMapData calls waiting for the network (bag of filters)
  mapResponses,           \* history: number of responses that were lists
  mapFetchCount,          \* history: network requests sent so far, per cache key
  onErrorCalls            \* history: the errors given to the onError callback

navVars == <<selectedDMA, isZoomedToDMA, showCountiesInDMA, viewport, timers>>
hookVars == <<selectedCounties, countyBoundaries, boundaryValue, loadingBoundaries,
              responses,
              lazyLoadingState, loadingQueue, isProcessingQueue,
              abortController, drains, directFetches, cache, fetchCount>>
mapVars == <<filters, mapData, apiCache, now, mapRequests, mapResponses,
             mapFetchCount, onErrorCalls>>
vars == <<navVars, hookVars, mapVars, client, returned, lastOp, events, failures>>

\* the hook's state as one value, so that a handler can chain hook calls
HookState ==
  [selectedCounties |-> selectedCounties,
   countyBoundaries |-> countyBoundaries,
   boundaryValue |-> boundaryValue,
   responses |-> responses,
   loadingBoundaries |-> loadingBoundaries,
   lazyLoadingState |-> lazyLoadingState,
   loadingQueue |-> loadingQueue,
   isProcessingQueue |-> isProcessingQueue,
   abortController |-> abortController,
   drains |-> drains,
   directFetches |-> directFetches,
   cache |-> cache,
   fetchCount |-> fetchCount]

SetHook(h) ==
  /\ selectedCounties' = h.selectedCounties
  /\ countyBoundaries' = h.countyBoundaries
  /\ boundaryValue' = h.boundaryValue
  /\ responses' = h.responses
  /\ loadingBoundaries' = h.loadingBoundaries
  /\ lazyLoadingState' = h.lazyLoadingState
  /\ loadingQueue' = h.loadingQueue
  /\ isProcessingQueue' = h.isProcessingQueue
  /\ abortController' = h.abortController
  /\ drains' = h.drains
  /\ directFetches' = h.directFetches
  /\ cache' = h.cache
  /\ fetchCount' = h.fetchCount

\* every run of processLoadingQueue is started by a user event or by the timer
\* of one, so MaxEvents slots are enough
DrainIds == 1..MaxEvents
NoDrain == [pc |-> "none"]
Active(d) == d.pc # "none"

Bucket(d, phase) ==
  IF phase = "high" THEN d.high ELSE IF phase = "medium" THEN d.medium ELSE d.low
batchSize(phase) ==
  IF phase = "high" THEN HighBatch ELSE IF phase = "medium" THEN MediumBatch
  ELSE LowBatch
delayBetweenBatches(phase) ==
  IF phase = "high" THEN HighDelay ELSE IF phase = "medium" THEN MediumDelay
  ELSE LowDelay

\* faulty variant of Batch: the slice is one job too long
BatchOversized(d) ==
  SubSeq(Bucket(d, d.phase), d.i + 1,
         Min2(d.i + batchSize(d.phase) + 1, Len(Bucket(d, d.phase))))

\* jobs.slice(i, i + batchSize)
Batch(d) ==
  SubSeq(Bucket(d, d.phase), d.i + 1,
         Min2(d.i + batchSize(d.phase), Len(Bucket(d, d.phase))))

\* abortControllerRef.current?.signal.aborted
Aborted(h) == h.abortController = "aborted"

\* processJobBatch, the callback of batch.map for one job, up to its first
\* suspension on the network; a call answered from the nominatim cache
\* continues at once
StartJob(h, id, job) ==
  LET d == h.drains[id]
      key == job.countyKey
  IN
  IF key \in d.snapB \cup d.snapL
  THEN \* return null; the finally block still deletes the key
       [h EXCEPT !.loadingBoundaries = @ \ {key}]
  ELSE IF key \in h.cache
  THEN \* fetchCountyBoundary returns COUNTY_BOUNDARY_CACHE[cacheKey]
       IF Aborted(h)
       THEN [h EXCEPT !.loadingBoundaries = @ \ {key},
                      !.drains[id].log = Append(@, job.priority)]
       ELSE [h EXCEPT !.countyBoundaries = @ \cup {key},
                      !.boundaryValue[key] = h.responses[key],
                      !.lazyLoadingState.loadedCount = @ + 1,
                      !.loadingBoundaries = @ \ {key},
                      !.drains[id].log = Append(@, job.priority)]
  ELSE \* await fetch(searchUrl)
       [h EXCEPT !.loadingBoundaries = @ \cup {key},
                 !.fetchCount[key] = @ + 1,
                 !.drains[id].waiting = @ \cup {key},
                 !.drains[id].log = Append(@, job.priority)]

RECURSIVE StartJobs(_, _, _)
StartJobs(h, id, batch) ==
  IF batch = <<>> THEN h
  ELSE StartJobs(StartJob(h, id, Head(batch)), id, Tail(batch))

\* faulty variant of NextPhase: the medium bucket is taken before the high one
NextPhaseMediumFirst(phase) ==
  IF phase = "start" THEN "medium" ELSE IF phase = "medium" THEN "high"
  ELSE IF phase = "high" THEN "low" ELSE "end"

NextPhase(phase) ==
  IF phase = "start" THEN "high" ELSE IF phase = "high" THEN "medium"
  ELSE IF phase = "medium" THEN "low" ELSE "end"

\* processLoadingQueue, the finally block
FinishDrain(h, id) ==
  [h EXCEPT !.isProcessingQueue = FALSE,
            !.lazyLoadingState.isLoading = FALSE,
            !.lazyLoadingState.currentPriority = "viewport",
            !.drains[id] = NoDrain]

RECURSIVE RunBatch(_, _), AfterBatch(_, _), NextBucket(_, _)

\* processJobBatch at the top of its loop, offset i: the abort check and the
\* dispatch of one batch
RunBatch(h, id) ==
  IF Aborted(h) THEN NextBucket(h, id)
  ELSE LET h1 == StartJobs(h, id, Batch(h.drains[id])) IN
       IF h1.drains[id].waiting = {} THEN AfterBatch(h1, id)
       ELSE [h1 EXCEPT !.drains[id].pc = "await"]

\* faulty variant of AfterBatch: the processed jobs stay in the queue
AfterBatchKeepingQueue(h, id) ==
  LET d == h.drains[id]
      more == d.i + batchSize(d.phase) < Len(Bucket(d, d.phase))
  IN IF more /\ delayBetweenBatches(d.phase) > 0
     THEN [h EXCEPT !.drains[id].pc = "delay"]
     ELSE IF more
     THEN RunBatch([h EXCEPT !.drains[id].i = @ + batchSize(d.phase)], id)
     ELSE NextBucket(h, id)

\* processJobBatch after await Promise.all(promises)
AfterBatch(h, id) ==
  LET d == h.drains[id]
      keys == QueueKeys(Batch(d))
      more == d.i + batchSize(d.phase) < Len(Bucket(d, d.phase))
      h1 == [h EXCEPT !.loadingQueue =
                         SelectSeq(@, LAMBDA j : j.countyKey \notin keys)]
  IN IF more /\ delayBetweenBatches(d.phase) > 0
     THEN [h1 EXCEPT !.drains[id].pc = "delay"]
     ELSE IF more
     THEN RunBatch([h1 EXCEPT !.drains[id].i = @ + batchSize(d.phase)], id)
     ELSE NextBucket(h1, id)

\* processLoadingQueue: the three if (jobs.length > 0) await processJobBatch
NextBucket(h, id) ==
  LET p == NextPhase(h.drains[id].phase) IN
  IF p = "end" THEN FinishDrain(h, id)
  ELSE IF Bucket(h.drains[id], p) = <<>>
  THEN NextBucket([h EXCEPT !.drains[id].phase = p], id)
  ELSE RunBatch([h EXCEPT !.drains[id].phase = p,
                          !.drains[id].i = 0,
                          !.lazyLoadingState.currentPriority =
                             IF p = "low" THEN "background" ELSE @], id)

\* processLoadingQueue past its guard, up to its first suspension.  snapB
\* and snapL are the countyBoundaries and loadingBoundaries of the render
\* whose processJobBatch this run closes over.
startDrain(h, snapB, snapL) ==
  LET id == CHOOSE n \in DrainIds :
              /\ ~Active(h.drains[n])
              /\ \A m \in DrainIds : ~Active(h.drains[m]) => n <= m
      sortedQueue == SortQueue(h.loadingQueue)
      highPriorityJobs == SelectSeq(sortedQueue, LAMBDA j : j.priority = "high")
      mediumPriorityJobs == SelectSeq(sortedQueue, LAMBDA j : j.priority = "medium")
      lowPriorityJobs == SelectSeq(sortedQueue, LAMBDA j : j.priority = "low")
  IN NextBucket(
       [h EXCEPT !.isProcessingQueue = TRUE,
                 !.lazyLoadingState.isLoading = TRUE,
                 !.lazyLoadingState.currentPriority =
                    IF highPriorityJobs # <<>> THEN "viewport" ELSE "background",
                 !.drains[id] =
                    [pc |-> "run", phase |-> "start", i |-> 0,
                     high |-> highPriorityJobs,
                     medium |-> mediumPriorityJobs,
                     low |-> lowPriorityJobs,
                     waiting |-> {},
                     snapB |-> snapB, snapL |-> snapL,
                     cancelled |-> FALSE,     \* history: cancel was called
                     log |-> <<>>]],          \* history: priorities fetched
       id)

\* faulty variant of processLoadingQueue: isProcessingQueueRef is not tested
processLoadingQueueUnguarded(h, snapB, snapL) ==
  IF h.loadingQueue = <<>> THEN h ELSE startDrain(h, snapB, snapL)

processLoadingQueue(h, snapB, snapL) ==
  IF h.isProcessingQueue \/ h.loadingQueue = <<>> THEN h
  ELSE startDrain(h, snapB, snapL)


\* lazyLoadCountyBoundaries(counties, viewport) of the render whose state
\* was snapB, snapL
lazyLoadCountyBoundaries(h, counties, vp, snapB, snapL) ==
  LET h1 == [h EXCEPT !.abortController = "active"]   \* abort(); new AbortController()
      countiesNeedingLoad ==
        SelectSeq(counties, LAMBDA c : /\ countyKey(c) \notin snapB
                                       /\ countyKey(c) \notin snapL)
      uniqueQueue ==
        UniqueQueue(h.loadingQueue \o prioritizeCounties(countiesNeedingLoad, vp))
  IN IF countiesNeedingLoad = <<>> THEN h1
     ELSE processLoadingQueue(
            [h1 EXCEPT !.loadingQueue = uniqueQueue,
                       !.lazyLoadingState.totalCount = Max2(@, Len(uniqueQueue))],
            snapB, snapL)

\* faulty variant of updateViewportPriority: the distance is not refreshed
updateViewportPriorityKeepingDistance(h, info) ==
  IF h.loadingQueue = <<>> THEN h
  ELSE [h EXCEPT !.loadingQueue =
          [n \in 1..Len(h.loadingQueue) |->
             [h.loadingQueue[n] EXCEPT
                !.priority = classify(h.loadingQueue[n].coordinates, info)]]]

updateViewportPriority(h, info) ==
  IF h.loadingQueue = <<>> THEN h
  ELSE [h EXCEPT !.loadingQueue =
          [n \in 1..Len(h.loadingQueue) |->
             [countyKey |-> h.loadingQueue[n].countyKey,
              coordinates |-> h.loadingQueue[n].coordinates,
              priority |-> classify(h.loadingQueue[n].coordinates, info),
              distance |-> calculateDistance(h.loadingQueue[n].coordinates,
                                             info.center)]]]

\* faulty variant of cancelLazyLoading: loadingQueueRef.current is left alone
cancelKeepingQueue(h) ==
  [h EXCEPT !.abortController = "null",
            !.isProcessingQueue = FALSE,
            !.lazyLoadingState = [isLoading |-> FALSE, loadedCount |-> 0,
                                  totalCount |-> 0, currentPriority |-> "viewport"],
            !.drains = [id \in DrainIds |->
                          IF Active(h.drains[id])
                          THEN [h.drains[id] EXCEPT !.cancelled = TRUE]
                          ELSE h.drains[id]]]

cancelLazyLoading(h) ==
  [h EXCEPT !.abortController = "null",       \* abort(); current = null
            !.loadingQueue = <<>>,
            !.isProcessingQueue = FALSE,
            !.lazyLoadingState = [isLoading |-> FALSE, loadedCount |-> 0,
                                  totalCount |-> 0, currentPriority |-> "viewport"],
            !.drains = [id \in DrainIds |->
                          IF Active(h.drains[id])
                          THEN [h.drains[id] EXCEPT !.cancelled = TRUE]
                          ELSE h.drains[id]]]

\* faulty variant of toggleSelection: a new name is put in front
toggleSelectionInFront(selected, countyName) ==
  IF \E n \in 1..Len(selected) : selected[n] = countyName
  THEN SelectSeq(selected, LAMBDA name : name # countyName)
  ELSE <<countyName>> \o selected

\* selectCounty, the updater given to setSelectionState
toggleSelection(selected, countyName) ==
  IF \E n \in 1..Len(selected) : selected[n] = countyName
  THEN SelectSeq(selected, LAMBDA name : name # countyName)
  ELSE Append(selected, countyName)

\* selectCounty(countyName, stateName) called from the latest render
selectCounty(h, countyName, stateName) ==
  LET key == <<countyName, stateName>>
      h1 == [h EXCEPT !.selectedCounties = toggleSelection(@, countyName)]
  IN IF stateName # "" /\ key \notin h.countyBoundaries
                       /\ key \notin h.loadingBoundaries
     THEN IF key \in h.cache
          THEN [h1 EXCEPT !.countyBoundaries = @ \cup {key},
                          !.boundaryValue[key] = h.responses[key],
                          !.loadingBoundaries = @ \ {key}]
          ELSE [h1 EXCEPT !.loadingBoundaries = @ \cup {key},
                          !.fetchCount[key] = @ + 1,
                          !.directFetches = @ (+) SetToBag({key})]
     ELSE h1

\* Array.from(new Set(names)): the first occurrence of every name, in order
RECURSIVE Unique(_)
Unique(names) ==
  IF names = <<>> THEN <<>>
  ELSE LET front == Unique(SubSeq(names, 1, Len(names) - 1))
           last == names[Len(names)]
       IN IF \E n \in 1..Len(front) : front[n] = last THEN front
          ELSE Append(front, last)

\* faulty variant of selectMultipleCounties: no new Set
selectMultipleCountiesRepeating(h, countyNames) ==
  [h EXCEPT !.selectedCounties = @ \o countyNames]

selectMultipleCounties(h, countyNames) ==
  [h EXCEPT !.selectedCounties = Unique(@ \o countyNames)]

deselectCounty(h, countyName) ==
  [h EXCEPT !.selectedCounties = SelectSeq(@, LAMBDA name : name # countyName)]

clearSelection(h) == [h EXCEPT !.selectedCounties = <<>>]

\* a quotient a / b of two numbers, kept exact
Quotient(a, b) == [num |-> a, den |-> b]

\* faulty variant of reduceStats: the bids are not added up
reduceStatsLastBid(acc, county) ==
  LET stats == county.aggregatedStats IN
  [totalRequests |-> acc.totalRequests + stats.totalRequests,
   totalConversions |-> acc.totalConversions + stats.totalConversions,
   totalCallsConnected |-> acc.totalCallsConnected + stats.totalCallsConnected,
   totalZipCodes |-> acc.totalZipCodes + stats.zipCodeCount,
   countyCount |-> acc.countyCount + 1,
   avgBidSum |-> stats.avgBid,
   minBid |-> IF acc.countyCount = 0 THEN stats.minBid
              ELSE Min2(acc.minBid, stats.minBid),
   maxBid |-> IF acc.countyCount = 0 THEN stats.maxBid
              ELSE Max2(acc.maxBid, stats.maxBid)]

\* getSelectedCountiesStats, the callback of reduce
reduceStats(acc, county) ==
  LET stats == county.aggregatedStats IN
  [totalRequests |-> acc.totalRequests + stats.totalRequests,
   totalConversions |-> acc.totalConversions + stats.totalConversions,
   totalCallsConnected |-> acc.totalCallsConnected + stats.totalCallsConnected,
   totalZipCodes |-> acc.totalZipCodes + stats.zipCodeCount,
   countyCount |-> acc.countyCount + 1,
   avgBidSum |-> acc.avgBidSum + stats.avgBid,
   minBid |-> IF acc.countyCount = 0 THEN stats.minBid    \* Math.min(Infinity, x)
              ELSE Min2(acc.minBid, stats.minBid),
   maxBid |-> IF acc.countyCount = 0 THEN stats.maxBid    \* Math.max(-Infinity, x)
              ELSE Max2(acc.maxBid, stats.maxBid)]

RECURSIVE ReduceStats(_, _)
ReduceStats(acc, counties) ==
  IF counties = <<>> THEN acc
  ELSE ReduceStats(reduceStats(acc, Head(counties)), Tail(counties))

\* isCountySelected(countyName)
isCountySelected(h, countyName) ==
  \E n \in 1..Len(h.selectedCounties) : h.selectedCounties[n] = countyName

\* the entries of the list that are the first with their name
FirstOfName(allCounties) ==
  LET firsts == SelectSeq([n \in 1..Len(allCounties) |-> n],
                          LAMBDA n : \A m \in 1..(n - 1) :
                                       allCounties[m].countyName
                                         # allCounties[n].countyName)
  IN [n \in 1..Len(firsts) |-> allCounties[firsts[n]]]

\* faulty variant of getSelectedCountiesStats: of the entries that share a
\* name only the first is taken
getSelectedCountiesStatsOncePerName(h, allCounties) ==
  LET selectedData ==
        SelectSeq(FirstOfName(allCounties),
                  LAMBDA county : \E n \in 1..Len(h.selectedCounties) :
                                    h.selectedCounties[n] = county.countyName)
      aggregated ==
        ReduceStats([totalRequests |-> 0, totalConversions |-> 0,
                     totalCallsConnected |-> 0, totalZipCodes |-> 0,
                     countyCount |-> 0, avgBidSum |-> 0,
                     minBid |-> 0, maxBid |-> 0], selectedData)
  IN IF selectedData = <<>> THEN [kind |-> "null"]
     ELSE [kind |-> "stats",
           totalRequests |-> aggregated.totalRequests,
           totalConversions |-> aggregated.totalConversions,
           totalCallsConnected |-> aggregated.totalCallsConnected,
           totalZipCodes |-> aggregated.totalZipCodes,
           countyCount |-> aggregated.countyCount,
           avgBidSum |-> aggregated.avgBidSum,
           minBid |-> aggregated.minBid,
           maxBid |-> aggregated.maxBid,
           avgBid |-> Quotient(aggregated.avgBidSum, aggregated.countyCount),
           conversionRate |->
             IF aggregated.totalRequests > 0
             THEN Quotient(aggregated.totalConversions * 100,
                           aggregated.totalRequests)
             ELSE Quotient(0, 1),
           connectionRate |->
             IF aggregated.totalRequests > 0
             THEN Quotient(aggregated.totalCallsConnected * 100,
                           aggregated.totalRequests)
             ELSE Quotient(0, 1)]

\* getSelectedCountiesStats(countyData): null, or the aggregate
getSelectedCountiesStats(h, allCounties) ==
  LET selectedData ==
        SelectSeq(allCounties,
                  LAMBDA county : \E n \in 1..Len(h.selectedCounties) :
                                    h.selectedCounties[n] = county.countyName)
      aggregated ==
        ReduceStats([totalRequests |-> 0, totalConversions |-> 0,
                     totalCallsConnected |-> 0, totalZipCodes |-> 0,
                     countyCount |-> 0, avgBidSum |-> 0,
                     minBid |-> 0, maxBid |-> 0], selectedData)
  IN IF selectedData = <<>> THEN [kind |-> "null"]
     ELSE [kind |-> "stats",
           totalRequests |-> aggregated.totalRequests,
           totalConversions |-> aggregated.totalConversions,
           totalCallsConnected |-> aggregated.totalCallsConnected,
           totalZipCodes |-> aggregated.totalZipCodes,
           countyCount |-> aggregated.countyCount,
           avgBidSum |-> aggregated.avgBidSum,
           minBid |-> aggregated.minBid,
           maxBid |-> aggregated.maxBid,
           avgBid |-> Quotient(aggregated.avgBidSum, aggregated.countyCount),
           conversionRate |->
             IF aggregated.totalRequests > 0
             THEN Quotient(aggregated.totalConversions * 100,
                           aggregated.totalRequests)
             ELSE Quotient(0, 1),
           connectionRate |->
             IF aggregated.totalRequests > 0
             THEN Quotient(aggregated.totalCallsConnected * 100,
                           aggregated.totalRequests)
             ELSE Quotient(0, 1)]

\* the network answers a fetch of selectCounty: ok = a boundary was found
\* (fetchCountyBoundary caches it), otherwise null comes back
selectCountySettled(h, key, ok) ==
  [h EXCEPT !.directFetches = @ (-) SetToBag({key}),
            !.cache = IF ok THEN @ \cup {key} ELSE @,
            !.responses[key] = IF ok THEN @ + 1 ELSE @,
            !.countyBoundaries = IF ok THEN @ \cup {key} ELSE @,
            !.boundaryValue[key] = IF ok THEN h.responses[key] + 1 ELSE @,
            !.loadingBoundaries = @ \ {key}]

\* the network answers a fetch of a batch of drain id; when it was the last
\* one of the batch, Promise.all resolves and the drain goes on
\* faulty variant of jobSettled: the key of a fetch that found nothing stays
\* in loadingBoundaries
jobSettledKeepingPending(h, id, key, ok) ==
  LET stored == ok /\ ~Aborted(h)
      h1 == [h EXCEPT !.cache = IF ok THEN @ \cup {key} ELSE @,
                      !.responses[key] = IF ok THEN @ + 1 ELSE @,
                      !.countyBoundaries = IF stored THEN @ \cup {key} ELSE @,
                      !.boundaryValue[key] =
                         IF stored THEN h.responses[key] + 1 ELSE @,
                      !.lazyLoadingState.loadedCount =
                         IF stored THEN @ + 1 ELSE @,
                      !.loadingBoundaries = IF ok THEN @ \ {key} ELSE @,
                      !.drains[id].waiting = @ \ {key}]
  IN IF h1.drains[id].waiting = {} THEN AfterBatch(h1, id) ELSE h1

jobSettled(h, id, key, ok) ==
  LET stored == ok /\ ~Aborted(h)
      h1 == [h EXCEPT !.cache = IF ok THEN @ \cup {key} ELSE @,
                      !.responses[key] = IF ok THEN @ + 1 ELSE @,
                      !.countyBoundaries = IF stored THEN @ \cup {key} ELSE @,
                      !.boundaryValue[key] =
                         IF stored THEN h.responses[key] + 1 ELSE @,
                      !.lazyLoadingState.loadedCount =
                         IF stored THEN @ + 1 ELSE @,
                      !.loadingBoundaries = @ \ {key},
                      !.drains[id].waiting = @ \ {key}]
  IN IF h1.drains[id].waiting = {} THEN AfterBatch(h1, id) ELSE h1

\* the pause between two batches is over: i += batchSize, next loop round
delayElapsed(h, id) ==
  RunBatch([h EXCEPT !.drains[id].pc = "run",
                     !.drains[id].i = @ + batchSize(h.drains[id].phase)], id)

\* ----------------------------------------------------------- dma.ts again
InBounds(point, bounds) ==
  /\ LessEq(bounds.southwest[1], Number(point[1]))
  /\ LessEq(Number(point[1]), bounds.northeast[1])
  /\ LessEq(bounds.southwest[2], Number(point[2]))
  /\ LessEq(Number(point[2]), bounds.northeast[2])

\* faulty variant of getCountiesInDMA: the bounding box test alone
getCountiesInBounds(dmaId, allCounties) ==
  IF \A n \in 1..Len(getProcessedDMAData) : getProcessedDMAData[n].id # dmaId
  THEN <<>>
  ELSE LET targetDMA == getProcessedDMAData[
                          CHOOSE n \in 1..Len(getProcessedDMAData) :
                            getProcessedDMAData[n].id = dmaId]
       IN SelectSeq(allCounties,
                    LAMBDA c : InBounds(c.coordinates, targetDMA.bounds))

\* faulty variant of countiesInDMA: the bounds check stands in for the
\* point-in-polygon test
countiesInBounds(data, dmaId, allCounties) ==
  IF \A n \in 1..Len(data) : data[n].id # dmaId
  THEN <<>>
  ELSE LET targetDMA == data[CHOOSE n \in 1..Len(data) :
                               /\ data[n].id = dmaId
                               /\ \A m \in 1..(n - 1) : data[m].id # dmaId]
       IN SelectSeq(allCounties,
                    LAMBDA c : InBounds(c.coordinates, targetDMA.bounds))

\* dma.ts getCountiesInDMA, given the value of getProcessedDMAData()
countiesInDMA(data, dmaId, allCounties) ==
  IF \A n \in 1..Len(data) : data[n].id # dmaId
  THEN <<>>
  ELSE LET targetDMA == data[CHOOSE n \in 1..Len(data) :
                               /\ data[n].id = dmaId
                               /\ \A m \in 1..(n - 1) : data[m].id # dmaId]
           candidateCounties ==
             SelectSeq(allCounties,
                       LAMBDA c : InBounds(c.coordinates, targetDMA.bounds))
       IN SelectSeq(candidateCounties,
                    LAMBDA c : pointInFeature(c.coordinates, targetDMA.feature) = "true")

getCountiesInDMA(dmaId, allCounties) ==
  countiesInDMA(getProcessedDMAData, dmaId, allCounties)

FindDMAInBounds(mapCenter) ==
  LET hits == SelectSeq(getProcessedDMAData,
                        LAMBDA dma : InBounds(mapCenter, dma.bounds))
  IN IF hits = <<>> THEN None ELSE hits[1].id

\* index.tsx handleViewportChange, both for loops over dmaData: the id of the
\* first DMA whose bounds and then whose feature contain the map center
FindDMA(mapCenter) ==
  LET hits == SelectSeq(getProcessedDMAData,
                        LAMBDA dma : /\ InBounds(mapCenter, dma.bounds)
                                     /\ pointInFeature(mapCenter, dma.feature) = "true")
  IN IF hits = <<>> THEN None ELSE hits[1].id


\* ------------------------------------------------- api.ts and useMapData
\* the filters useFilters can hold: { industryId, timeframe, zipCodes },
\* always built with its fields in this order; zipCodes <<>> is undefined
FilterValues ==
  {[industryId |-> 1, timeframe |-> "7_days", zipCodes |-> <<>>],
   [industryId |-> 1, timeframe |-> "30_days", zipCodes |-> <<>>],
   [industryId |-> 1, timeframe |-> "7_days", zipCodes |-> <<"z1">>]}

\* ApiCache.generateKey: JSON.stringify(filters) lists every field that is
\* defined with its value, in the order of the fields
generateKey(f) ==
  IF f.zipCodes = <<>>
  THEN <<"industryId", f.industryId, "timeframe", f.timeframe>>
  ELSE <<"industryId", f.industryId, "timeframe", f.timeframe,
         "zipCodes", f.zipCodes>>
CacheKeys == {generateKey(f) : f \in FilterValues}

NoError == "null"
ErrorMessages ==
  [notAList |-> "Invalid response format: expected array",
   httpError |-> "API request failed"]

\* the state of useMapData, useFilters and the api module as one value
MapState ==
  [filters |-> filters, mapData |-> mapData, apiCache |-> apiCache, now |-> now,
   mapRequests |-> mapRequests, mapResponses |-> mapResponses,
   mapFetchCount |-> mapFetchCount, onErrorCalls |-> onErrorCalls]

SetMap(m) ==
  /\ filters' = m.filters
  /\ mapData' = m.mapData
  /\ apiCache' = m.apiCache
  /\ now' = m.now
  /\ mapRequests' = m.mapRequests
  /\ mapResponses' = m.mapResponses
  /\ mapFetchCount' = m.mapFetchCount
  /\ onErrorCalls' = m.onErrorCalls

\* ApiCache.get: the entry's data, <<>> for none; an entry older than its
\* ttl is deleted
apiCacheGet(entries, f, t) ==
  LET key == generateKey(f)
      cached == entries[key]
  IN IF cached = <<>> THEN [cache |-> entries, data |-> <<>>]
     ELSE IF t - cached[1].timestamp > cached[1].ttl
     THEN [cache |-> [entries EXCEPT ![key] = <<>>], data |-> <<>>]
     ELSE [cache |-> entries, data |-> <<cached[1].data>>]

\* ApiCache.set with the default ttlMinutes
apiCacheSet(entries, f, data, t) ==
  [entries EXCEPT ![generateKey(f)] =
     <<[data |-> data, timestamp |-> t, ttl |-> CacheTTL]>>]

\* faulty variant of fetchData: the cache is not consulted
fetchDataUncached(m, f) ==
  [m EXCEPT !.mapData.loading = TRUE,
            !.mapData.error = NoError,
            !.mapRequests = @ (+) SetToBag({f}),
            !.mapFetchCount[generateKey(f)] = @ + 1]

\* useMapData fetchData with fetchMapDataWithCache, up to its suspension on
\* the network; a cached response is returned at once
fetchData(m, f) ==
  LET got == apiCacheGet(m.apiCache, f, m.now)
      m1 == [m EXCEPT !.mapData.loading = TRUE,
                      !.mapData.error = NoError,
                      !.apiCache = got.cache]
  IN IF got.data # <<>>
     THEN [m1 EXCEPT !.mapData.data = got.data,
                     !.mapData.loading = FALSE]
     ELSE [m1 EXCEPT !.mapRequests = @ (+) SetToBag({f}),
                     !.mapFetchCount[generateKey(f)] = @ + 1]

\* faulty variant of fetchMapDataSettled: a response that is not a list is
\* returned as data
fetchMapDataSettledUnchecked(m, f, outcome) ==
  LET m1 == [m EXCEPT !.mapRequests = @ (-) SetToBag({f})] IN
  IF outcome \in {"list", "notAList"}
  THEN [m1 EXCEPT !.mapResponses = @ + 1,
                  !.apiCache = apiCacheSet(@, f, m.mapResponses + 1, m.now),
                  !.mapData.data = <<m.mapResponses + 1>>,
                  !.mapData.loading = FALSE]
  ELSE [m1 EXCEPT !.mapData.error = ErrorMessages[outcome],
                  !.mapData.loading = FALSE,
                  !.onErrorCalls = Append(@, ErrorMessages[outcome])]

\* the network answers fetchMapData(f): with a list, with something that is
\* not a list, or with an HTTP error.  fetchMapData returns or throws,
\* fetchMapDataWithCache stores what was returned, fetchData sets data or
\* error and clears loading, and the effect of LeadsMap on apiError calls
\* onError
fetchMapDataSettled(m, f, outcome) ==
  LET m1 == [m EXCEPT !.mapRequests = @ (-) SetToBag({f})] IN
  IF outcome = "list"
  THEN [m1 EXCEPT !.mapResponses = @ + 1,
                  !.apiCache = apiCacheSet(@, f, m.mapResponses + 1, m.now),
                  !.mapData.data = <<m.mapResponses + 1>>,
                  !.mapData.loading = FALSE]
  ELSE [m1 EXCEPT !.mapData.error = ErrorMessages[outcome],
                  !.mapData.loading = FALSE,
                  !.onErrorCalls = Append(@, ErrorMessages[outcome])]

\* useMapData and the api module before the first effect
IdleMapData ==
  /\ filters = [industryId |-> 1, timeframe |-> "7_days", zipCodes |-> <<>>]
  /\ mapData = [data |-> <<>>, loading |-> FALSE, error |-> NoError]
  /\ apiCache = [key \in CacheKeys |-> <<>>]
  /\ now = 0
  /\ mapRequests = EmptyBag
  /\ mapResponses = 0
  /\ mapFetchCount = [key \in CacheKeys |-> 0]
  /\ onErrorCalls = <<>>

\* ------------------------------------------------------------- index.tsx
Op(op, branch) == [op |-> op, branch |-> branch]

\* a step taken by the user; the others are taken by timers and the network
UserEvent ==
  /\ events < MaxEvents /\ events' = events + 1
  /\ UNCHANGED <<failures, client, returned, mapVars>>
EnvironmentEvent == UNCHANGED <<events, failures, client, returned, mapVars>>
\* the network answers: ok = a boundary was found
NetworkEvent(ok) ==
  /\ UNCHANGED <<events, client, returned, mapVars>>
  /\ IF ok THEN UNCHANGED failures
     ELSE failures < MaxFailures /\ failures' = failures + 1

\* the branch handleViewportChange takes, from the state of the latest render
viewportBranch(v) ==
  LET found == FindDMA(v.center) IN
  IF isZoomedToDMA /\ showCountiesInDMA /\ v.zoom < ZoomExit THEN "exit"
  ELSE IF ~isZoomedToDMA /\ v.zoom >= ZoomEnter
  THEN IF found # None THEN "enter" ELSE "none"
  ELSE IF isZoomedToDMA /\ v.zoom >= ZoomEnter
  THEN IF found # None /\ found # selectedDMA THEN "switch"
       ELSE IF found = None /\ selectedDMA # None THEN "outside"
       ELSE "none"
  ELSE "none"

\* onMove={(evt) => handleViewportChange(evt.viewState)}
handleViewportChange(v) ==
  LET info == viewportInfo(v)
      found == FindDMA(v.center)
      branch == viewportBranch(v)
      h0 == updateViewportPriority(HookState, info)
      load(h) == lazyLoadCountyBoundaries(h, getCountiesInDMA(found, countyData),
                                          <<info>>, countyBoundaries,
                                          loadingBoundaries)
  IN
  /\ UserEvent
  /\ viewport' = v
  /\ lastOp' = Op("handleViewportChange", branch)
  /\ UNCHANGED timers
  /\ CASE branch = "exit" ->
            /\ showCountiesInDMA' = FALSE
            /\ selectedDMA' = None
            /\ isZoomedToDMA' = FALSE
            /\ SetHook(cancelLazyLoading(h0))
       [] branch = "enter" ->
            /\ selectedDMA' = found
            /\ isZoomedToDMA' = TRUE
            /\ showCountiesInDMA' = TRUE
            /\ SetHook(load(h0))
       [] branch = "switch" ->
            /\ selectedDMA' = found
            /\ showCountiesInDMA' = TRUE
            /\ UNCHANGED isZoomedToDMA
            /\ SetHook(load(cancelLazyLoading(h0)))
       [] branch = "outside" ->
            /\ showCountiesInDMA' = FALSE
            /\ selectedDMA' = None
            /\ UNCHANGED isZoomedToDMA
            /\ SetHook(cancelLazyLoading(h0))
       [] OTHER ->
            /\ UNCHANGED <<selectedDMA, isZoomedToDMA, showCountiesInDMA>>
            /\ SetHook(h0)

Timer(kind, dmaId) ==
  [kind |-> kind, dma |-> dmaId,
   snapB |-> countyBoundaries, snapL |-> loadingBoundaries]

\* faulty variant of handleDMAClick: the click on the active DMA is not
\* recognised and zooms in again
handleDMAClickAgain(dmaId) ==
  /\ UserEvent
  /\ dmaId \in DMAIds
  /\ UNCHANGED <<viewport, hookVars>>
  /\ showCountiesInDMA' = FALSE
  /\ IF isZoomedToDMA /\ selectedDMA # dmaId
     THEN /\ lastOp' = Op("handleDMAClick", "other")
          /\ timers' = timers (+) SetToBag({Timer("activate", dmaId)})
          /\ UNCHANGED <<selectedDMA, isZoomedToDMA>>
     ELSE /\ lastOp' = Op("handleDMAClick", IF isZoomedToDMA THEN "same" ELSE "first")
          /\ selectedDMA' = dmaId
          /\ isZoomedToDMA' = TRUE
          /\ timers' = timers (+) SetToBag({Timer("load", dmaId)})

\* handleDMAClick(dmaId, dmaName), reached from handleMapClick
handleDMAClick(dmaId) ==
  /\ UserEvent
  /\ dmaId \in DMAIds
  /\ UNCHANGED <<viewport, hookVars>>
  /\ IF isZoomedToDMA /\ selectedDMA = dmaId
     THEN /\ lastOp' = Op("handleDMAClick", "same")
          /\ UNCHANGED <<selectedDMA, isZoomedToDMA, showCountiesInDMA, timers>>
     ELSE /\ showCountiesInDMA' = FALSE
          /\ IF isZoomedToDMA /\ selectedDMA # dmaId
             THEN \* zoom out first; setTimeout(..., 900)
                  /\ lastOp' = Op("handleDMAClick", "other")
                  /\ timers' = timers (+) SetToBag({Timer("activate", dmaId)})
                  /\ UNCHANGED <<selectedDMA, isZoomedToDMA>>
             ELSE \* zoom in at once; setTimeout(..., 1600)
                  /\ lastOp' = Op("handleDMAClick", "first")
                  /\ selectedDMA' = dmaId
                  /\ isZoomedToDMA' = TRUE
                  /\ timers' = timers (+) SetToBag({Timer("load", dmaId)})

\* faulty variant of timerActivate: the load is scheduled without making the
\* clicked DMA active
timerActivateLater(t) ==
  /\ EnvironmentEvent
  /\ BagIn(t, timers) /\ t.kind = "activate"
  /\ timers' = (timers (-) SetToBag({t})) (+) SetToBag({[t EXCEPT !.kind = "load"]})
  /\ lastOp' = Op("timer", "activate")
  /\ UNCHANGED <<selectedDMA, isZoomedToDMA, showCountiesInDMA, viewport, hookVars>>

\* the callback of setTimeout(..., 900): make the clicked DMA active, zoom
\* in, and start setTimeout(..., 1300)
timerActivate(t) ==
  /\ EnvironmentEvent
  /\ BagIn(t, timers) /\ t.kind = "activate"
  /\ selectedDMA' = t.dma
  /\ isZoomedToDMA' = TRUE
  /\ timers' = (timers (-) SetToBag({t})) (+) SetToBag({[t EXCEPT !.kind = "load"]})
  /\ lastOp' = Op("timer", "activate")
  /\ UNCHANGED <<showCountiesInDMA, viewport, hookVars>>

\* the callbacks of setTimeout(..., 1300) and setTimeout(..., 1600): show the
\* counties and submit their loads, with the hook of the render of the click
timerLoad(t) ==
  /\ EnvironmentEvent
  /\ BagIn(t, timers) /\ t.kind = "load"
  /\ showCountiesInDMA' = TRUE
  /\ timers' = timers (-) SetToBag({t})
  /\ SetHook(lazyLoadCountyBoundaries(HookState,
                                      getCountiesInDMA(t.dma, countyData),
                                      <<viewportInfo(viewport)>>,
                                      t.snapB, t.snapL))
  /\ lastOp' = Op("timer", "load")
  /\ UNCHANGED <<selectedDMA, isZoomedToDMA, viewport>>

\* faulty variant of handleResetDMAZoom: it also clears the selection
handleResetClearingSelection ==
  /\ UserEvent
  /\ isZoomedToDMA
  /\ selectedDMA' = None
  /\ isZoomedToDMA' = FALSE
  /\ showCountiesInDMA' = FALSE
  /\ SetHook(clearSelection(HookState))
  /\ lastOp' = Op("handleResetDMAZoom", "reset")
  /\ UNCHANGED <<viewport, timers>>

\* the Reset Zoom button, rendered while isZoomedToDMA
handleResetDMAZoom ==
  /\ UserEvent
  /\ isZoomedToDMA
  /\ selectedDMA' = None
  /\ isZoomedToDMA' = FALSE
  /\ showCountiesInDMA' = FALSE
  /\ lastOp' = Op("handleResetDMAZoom", "reset")
  /\ UNCHANGED <<viewport, timers, hookVars>>

\* a county feature can be clicked when one of the county layers shows it
CountyShown(c) ==
  /\ isZoomedToDMA /\ showCountiesInDMA
  /\ \/ /\ selectedDMA # None
        /\ \E n \in 1..Len(getCountiesInDMA(selectedDMA, countyData)) :
              getCountiesInDMA(selectedDMA, countyData)[n] = c
     \/ /\ \E n \in 1..Len(selectedCounties) : selectedCounties[n] = c.countyName
        /\ countyKey(c) \in countyBoundaries

\* handleMapClick on a county feature
handleCountyClick(c) ==
  /\ UserEvent
  /\ CountyShown(c)
  /\ SetHook(selectCounty(HookState, c.countyName, c.stateName))
  /\ lastOp' = Op("selectCounty", c.countyName)
  /\ UNCHANGED navVars

\* CountyStatsPanel onCountyDeselect
handleCountyDeselect(name) ==
  /\ UserEvent
  /\ \E n \in 1..Len(selectedCounties) : selectedCounties[n] = name
  /\ SetHook(deselectCounty(HookState, name))
  /\ lastOp' = Op("deselectCounty", name)
  /\ UNCHANGED navVars

\* CountyStatsPanel onClearAll
handleClearAll ==
  /\ UserEvent
  /\ selectedCounties # <<>>
  /\ SetHook(clearSelection(HookState))
  /\ lastOp' = Op("clearSelection", "")
  /\ UNCHANGED navVars

\* ------------------------------------------------------- the environment
SelectFetchSettles(key, ok) ==
  /\ NetworkEvent(ok)
  /\ BagIn(key, directFetches)
  /\ SetHook(selectCountySettled(HookState, key, ok))
  /\ lastOp' = Op("settled", "selectCounty")
  /\ UNCHANGED navVars

JobFetchSettles(id, key, ok) ==
  /\ NetworkEvent(ok)
  /\ Active(drains[id]) /\ drains[id].pc = "await"
  /\ key \in drains[id].waiting
  /\ SetHook(jobSettled(HookState, id, key, ok))
  /\ lastOp' = Op("settled", "job")
  /\ UNCHANGED navVars

DelayElapses(id) ==
  /\ EnvironmentEvent
  /\ Active(drains[id]) /\ drains[id].pc = "delay"
  /\ SetHook(delayElapsed(HookState, id))
  /\ lastOp' = Op("delay", "job")
  /\ UNCHANGED navVars

\* --------------------------------------------------------- specification
\* the state after LeadsMap and its useCountySelection hook are mounted
Mount ==
  /\ selectedDMA = None
  /\ isZoomedToDMA = FALSE
  /\ showCountiesInDMA = FALSE
  /\ viewport = [zoom |-> 5, center |-> <<2, 2>>]
  /\ timers = EmptyBag
  /\ selectedCounties = <<>>
  /\ countyBoundaries = {}
  /\ boundaryValue = [key \in Keys |-> 0]
  /\ responses = [key \in Keys |-> 0]
  /\ loadingBoundaries = {}
  /\ lazyLoadingState = [isLoading |-> FALSE, loadedCount |-> 0,
                         totalCount |-> 0, currentPriority |-> "viewport"]
  /\ loadingQueue = <<>>
  /\ isProcessingQueue = FALSE
  /\ abortController = "null"
  /\ drains = [id \in DrainIds |-> NoDrain]
  /\ directFetches = EmptyBag
  /\ cache = {}
  /\ fetchCount = [key \in Keys |-> 0]
  /\ lastOp = Op("init", "")
  /\ events = 0
  /\ failures = 0
  /\ IdleMapData

Next ==
  \/ \E v \in Viewports : handleViewportChange(v)
  \/ \E dmaId \in DMAIds : handleDMAClick(dmaId)
  \/ \E t \in BagToSet(timers) : timerActivate(t)
  \/ \E t \in BagToSet(timers) : timerLoad(t)
  \/ handleResetDMAZoom
  \/ \E n \in 1..Len(countyData) : handleCountyClick(countyData[n])
  \/ \E n \in 1..Len(countyData) : handleCountyDeselect(countyData[n].countyName)
  \/ handleClearAll
  \/ \E key \in Keys, ok \in BOOLEAN : SelectFetchSettles(key, ok)
  \/ \E id \in DrainIds, key \in Keys, ok \in BOOLEAN : JobFetchSettles(id, key, ok)
  \/ \E id \in DrainIds : DelayElapses(id)

NoClient == [counties |-> <<>>, viewport |-> NoViewport]
NoReturn == [kind |-> "none"]

Init == Mount /\ client = NoClient /\ returned = NoReturn

Spec == Init /\ [][Next]_vars

\* ------------------------------------- the hook under a resubmitting caller
\* A caller of useCountySelection that submits one job list, with one
\* optional viewport, any number of times: lazyLoadCountyBoundaries(counties,
\* viewport) of the latest render, twice in a row from the same render, or
\* of an old render.
County(name) ==
  countyData[CHOOSE n \in 1..Len(countyData) : countyData[n].countyName = name]

Clients ==
  {[counties |-> cs, viewport |-> vp] :
     cs \in {<<County("a1"), County("a2"), County("x1")>>,
             <<County("x1"), County("a2"), County("a1")>>,
             <<County("a1"), County("b1")>>},
     vp \in {NoViewport,
             <<viewportInfo([zoom |-> 8, center |-> <<2, 2>>])>>,
             <<viewportInfo([zoom |-> 6, center |-> <<2, 2>>])>>}}

SubmitJobs ==
  /\ UserEvent
  /\ SetHook(lazyLoadCountyBoundaries(HookState, client.counties, client.viewport,
                                      countyBoundaries, loadingBoundaries))
  /\ lastOp' = Op("lazyLoadCountyBoundaries", "once")
  /\ UNCHANGED navVars

SubmitJobsTwice ==
  /\ UserEvent
  /\ SetHook(lazyLoadCountyBoundaries(
               lazyLoadCountyBoundaries(HookState, client.counties,
                                        client.viewport,
                                        countyBoundaries, loadingBoundaries),
               client.counties, client.viewport,
               countyBoundaries, loadingBoundaries))
  /\ lastOp' = Op("lazyLoadCountyBoundaries", "twice")
  /\ UNCHANGED navVars

\* the same call made through the callback of the first render, whose
\* countyBoundaries and loadingBoundaries are still empty
SubmitJobsStale ==
  /\ UserEvent
  /\ SetHook(lazyLoadCountyBoundaries(HookState, client.counties, client.viewport,
                                      {}, {}))
  /\ lastOp' = Op("lazyLoadCountyBoundaries", "stale")
  /\ UNCHANGED navVars

InitSubmit == Mount /\ client \in Clients /\ returned = NoReturn

NextSubmit ==
  \/ SubmitJobs
  \/ SubmitJobsTwice
  \/ SubmitJobsStale
  \/ \E id \in DrainIds, key \in Keys, ok \in BOOLEAN : JobFetchSettles(id, key, ok)
  \/ \E id \in DrainIds : DelayElapses(id)

SpecSubmit == InitSubmit /\ [][NextSubmit]_vars

\* ------------------------------------ the hook's lazy loading interface
\* A caller of useCountySelection that calls lazyLoadCountyBoundaries with
\* different job lists and viewports, and cancelLazyLoading, in any order:
\* lists answered in one batch and in several, without a viewport (all
\* medium, no distance), with four counties near the viewport center (all
\* high, three at the same distance) and with a far viewport (all low).
Submissions ==
  {[counties |-> <<County("a1"), County("b1")>>, viewport |-> NoViewport],
   [counties |-> <<County("a1"), County("a2"), County("x1")>>,
    viewport |-> NoViewport],
   [counties |-> <<County("x1")>>,
    viewport |-> <<viewportInfo([zoom |-> 6, center |-> <<2, 2>>])>>],
   [counties |-> <<County("x4"), County("x3"), County("x2"), County("x1")>>,
    viewport |-> <<viewportInfo([zoom |-> 8, center |-> <<6, 8>>])>>],
   [counties |-> <<County("a1"), County("a2"), County("x1")>>,
    viewport |-> <<viewportInfo([zoom |-> 8, center |-> <<14, 4>>])>>]}

CallLazyLoadCountyBoundaries(s) ==
  /\ UserEvent
  /\ SetHook(lazyLoadCountyBoundaries(HookState, s.counties, s.viewport,
                                      countyBoundaries, loadingBoundaries))
  /\ lastOp' = Op("lazyLoadCountyBoundaries", "call")
  /\ UNCHANGED navVars

CallCancelLazyLoading ==
  /\ UserEvent
  /\ SetHook(cancelLazyLoading(HookState))
  /\ lastOp' = Op("cancelLazyLoading", "call")
  /\ UNCHANGED navVars

NextQueue ==
  \/ \E s \in Submissions : CallLazyLoadCountyBoundaries(s)
  \/ CallCancelLazyLoading
  \/ \E id \in DrainIds, key \in Keys, ok \in BOOLEAN : JobFetchSettles(id, key, ok)
  \/ \E id \in DrainIds : DelayElapses(id)

SpecQueue == Init /\ [][NextQueue]_vars

\* ------------------------------------------ the hook's selection interface
\* A caller of useCountySelection that selects and deselects counties by
\* name: selectCounty with or without a state name, selectMultipleCounties,
\* deselectCounty, clearSelection, in any order.
CountyNames == {countyData[n].countyName : n \in 1..Len(countyData)}

NameLists ==
  {<<>>, <<"a1", "a2", "b1">>, <<"b1", "a1">>, <<"a2", "a2", "x1">>}

CallSelectCounty(countyName, stateName) ==
  /\ UserEvent
  /\ SetHook(selectCounty(HookState, countyName, stateName))
  /\ lastOp' = Op("selectCounty", countyName)
  /\ UNCHANGED navVars

CallSelectMultipleCounties(countyNames) ==
  /\ UserEvent
  /\ SetHook(selectMultipleCounties(HookState, countyNames))
  /\ lastOp' = Op("selectMultipleCounties", "")
  /\ UNCHANGED navVars

CallDeselectCounty(countyName) ==
  /\ UserEvent
  /\ SetHook(deselectCounty(HookState, countyName))
  /\ lastOp' = Op("deselectCounty", countyName)
  /\ UNCHANGED navVars

CallClearSelection ==
  /\ UserEvent
  /\ SetHook(clearSelection(HookState))
  /\ lastOp' = Op("clearSelection", "")
  /\ UNCHANGED navVars

NextSelection ==
  \/ \E name \in CountyNames, stateName \in {"S", ""} :
       CallSelectCounty(name, stateName)
  \/ \E names \in NameLists : CallSelectMultipleCounties(names)
  \/ \E name \in CountyNames : CallDeselectCounty(name)
  \/ CallClearSelection
  \/ \E key \in Keys, ok \in BOOLEAN : SelectFetchSettles(key, ok)

SpecSelection == Init /\ [][NextSelection]_vars

\* ------------------------------------------------ the statistics function
\* A caller that changes the selection and asks for the statistics of the
\* selected counties over one list of county data.
CountyStats(name, requests, conversions, connected, bid) ==
  [countyName |-> name,
   aggregatedStats |-> [totalRequests |-> requests,
                        totalConversions |-> conversions,
                        totalCallsConnected |-> connected,
                        zipCodeCount |-> 1 + requests \div 50,
                        avgBid |-> bid,
                        minBid |-> bid - 1,
                        maxBid |-> bid + 2]]

StatsLists ==
  {<<>>,
   <<CountyStats("a1", 100, 8, 4, 10), CountyStats("a2", 200, 30, 9, 20)>>,
   <<CountyStats("a2", 200, 30, 9, 20), CountyStats("b1", 0, 0, 0, 7),
     CountyStats("a1", 100, 8, 4, 10), CountyStats("a1", 40, 1, 1, 3)>>,
   <<CountyStats("x1", 0, 0, 0, 5)>>}

CallGetSelectedCountiesStats ==
  /\ events < MaxEvents /\ events' = events + 1
  /\ returned' = getSelectedCountiesStats(HookState, client.counties)
  /\ lastOp' = Op("getSelectedCountiesStats", "")
  /\ UNCHANGED <<navVars, hookVars, mapVars, client, failures>>

InitStats ==
  /\ Mount /\ returned = NoReturn
  /\ \E counties \in StatsLists :
       client = [counties |-> counties, viewport |-> NoViewport]

NextStats ==
  \/ \E name \in CountyNames : CallSelectCounty(name, "")
  \/ \E names \in NameLists : CallSelectMultipleCounties(names)
  \/ \E name \in CountyNames : CallDeselectCounty(name)
  \/ CallClearSelection
  \/ CallGetSelectedCountiesStats

SpecStats == InitStats /\ [][NextStats]_vars

\* ------------------------------------------- the geometry functions alone
\* dma.ts called directly: the caller holds a point and a feature collection
\* (what topojson's feature() made of a topology) and calls pointInFeature
\* on one of its features or getProcessedDMAData on all of them.

\* the closed ring of the rectangle from (x0, y0) to (x1, y1)
Rect(x0, y0, x1, y1) ==
  << <<x0, y0>>, <<x1, y0>>, <<x1, y1>>, <<x0, y1>>, <<x0, y0>> >>

Polygon(id, coordinates) ==
  [id |-> id, geometry |-> [type |-> "Polygon", coordinates |-> coordinates]]
MultiPolygon(id, coordinates) ==
  [id |-> id,
   geometry |-> [type |-> "MultiPolygon", coordinates |-> coordinates]]

\* a square with a square hole
FeatureH == Polygon("H", <<Rect(0, 0, 8, 8), Rect(2, 2, 6, 6)>>)
\* two parts, the second one with a hole
FeatureM ==
  MultiPolygon("M", << <<Rect(0, 0, 4, 4)>>,
                       <<Rect(10, 0, 16, 6), Rect(12, 2, 14, 4)>> >>)
\* a part without a ring after a part with one
FeatureP == MultiPolygon("P", << <<Rect(0, 0, 4, 4)>>, <<>> >>)

\* feature collections: the markets of dma.json, features with holes, and
\* features without geometry, without coordinates, without a ring, or with
\* a ring without points
Topologies ==
  << Features,
     <<FeatureH, FeatureM>>,
     <<[id |-> "n", geometry |-> NoGeometry], Polygon("p0", <<>>)>>,
     <<Polygon("p1", << <<>> >>), MultiPolygon("m0", <<>>)>>,
     <<MultiPolygon("m1", << <<>> >>), MultiPolygon("m2", << << <<>> >> >>)>>,
     <<FeatureP, FeatureB>> >>

\* points off every edge of the features above (their corners are even)
Points == {<<x, y>> : x \in {1, 3, 5, 9, 11, 13}, y \in {1, 3, 9}}

CallPointInFeature(n) ==
  /\ returned' = [kind |-> "pointInFeature", feature |-> n,
                  value |-> pointInFeature(client.point, client.features[n])]
  /\ lastOp' = Op("pointInFeature", "")
  /\ UNCHANGED <<navVars, hookVars, mapVars, client, events, failures>>

CallGetProcessedDMAData ==
  /\ returned' = [kind |-> "getProcessedDMAData",
                  value |-> dmaData(client.features)]
  /\ lastOp' = Op("getProcessedDMAData", "")
  /\ UNCHANGED <<navVars, hookVars, mapVars, client, events, failures>>

\* a county of the caller's list at a point
CountyAt(x, y) ==
  [countyName |-> <<x, y>>, stateName |-> "S", coordinates |-> <<x, y>>]

\* lists of counties for getCountiesInDMA: points inside a feature, inside
\* its bounds only, on its edges and corners, and outside its bounds
CountyLists ==
  << <<CountyAt(1, 1), CountyAt(5, 1), CountyAt(9, 1), CountyAt(11, 1),
       CountyAt(13, 3), CountyAt(3, 3), CountyAt(20, 20)>>,
     <<CountyAt(13, 3), CountyAt(0, 2), CountyAt(4, 2), CountyAt(2, 0),
       CountyAt(2, 4), CountyAt(0, 0), CountyAt(16, 6), CountyAt(3, 3),
       CountyAt(1, 1)>>,
     <<CountyAt(9, 3), CountyAt(0 - 1, 2), CountyAt(17, 2), CountyAt(2, 9)>>,
     <<>> >>

CallGetCountiesInDMA(n, k) ==
  /\ returned' = [kind |-> "getCountiesInDMA", feature |-> n,
                  counties |-> CountyLists[k],
                  value |-> countiesInDMA(dmaData(client.features),
                                          client.features[n].id,
                                          CountyLists[k])]
  /\ lastOp' = Op("getCountiesInDMA", "")
  /\ UNCHANGED <<navVars, hookVars, mapVars, client, events, failures>>

InitGeometry ==
  /\ Mount /\ returned = NoReturn
  /\ \E t \in 1..Len(Topologies), point \in Points :
       client = [point |-> point, features |-> Topologies[t]]

NextGeometry ==
  \/ \E n \in 1..Len(client.features) : CallPointInFeature(n)
  \/ CallGetProcessedDMAData
  \/ \E n \in 1..Len(client.features), k \in 1..Len(CountyLists) :
       CallGetCountiesInDMA(n, k)

SpecGeometry == InitGeometry /\ [][NextGeometry]_vars

\* ------------------------------------------------ the lead metrics loader
\* LeadsMap with useFilters and useMapData: the user changes the filters or
\* asks for a refetch, the network answers, time passes.
Outcomes == {"list", "notAList", "httpError"}

\* updateFilters(updates): a new filters object, so fetchData is rebuilt and
\* the effect of useMapData calls it
updateFilters(f) ==
  /\ events < MaxEvents /\ events' = events + 1
  /\ SetMap(fetchData([MapState EXCEPT !.filters = f], f))
  /\ lastOp' = Op("updateFilters", "")
  /\ UNCHANGED <<navVars, hookVars, client, returned, failures>>

\* refetch(), and the effect of useMapData after the first render
refetch ==
  /\ events < MaxEvents /\ events' = events + 1
  /\ SetMap(fetchData(MapState, filters))
  /\ lastOp' = Op("refetch", "")
  /\ UNCHANGED <<navVars, hookVars, client, returned, failures>>

MapDataSettles(f, outcome) ==
  /\ BagIn(f, mapRequests)
  /\ IF outcome = "list" THEN UNCHANGED failures
     ELSE failures < MaxFailures /\ failures' = failures + 1
  /\ SetMap(fetchMapDataSettled(MapState, f, outcome))
  /\ lastOp' = Op("fetchMapData", outcome)
  /\ UNCHANGED <<navVars, hookVars, client, returned, events>>

\* a minute passes
Tick ==
  /\ now < MaxTime
  /\ now' = now + 1
  /\ lastOp' = Op("clock", "")
  /\ UNCHANGED <<navVars, hookVars, client, returned, events, failures,
                 filters, mapData, apiCache, mapRequests, mapResponses,
                 mapFetchCount, onErrorCalls>>

NextMapData ==
  \/ \E f \in FilterValues : updateFilters(f)
  \/ refetch
  \/ \E f \in FilterValues, outcome \in Outcomes : MapDataSettles(f, outcome)
  \/ Tick

SpecMapData == Init /\ [][NextMapData]_vars

\* ============================================================== properties
ActiveDrains == {id \in DrainIds : Active(drains[id])}

\* network fetches for key that have been sent and not yet answered
InFlight(key) ==
  CopiesIn(key, directFetches)
    + Cardinality({id \in ActiveDrains : key \in drains[id].waiting})

\* C1: in every reachable navigation state, showCountiesInDMA implies
\* isZoomedToDMA, and isZoomedToDMA implies that selectedDMA is not none.
NavigationInvariant ==
  /\ showCountiesInDMA => isZoomedToDMA
  /\ isZoomedToDMA => selectedDMA # None

\* C2: at any time at most one network fetch is in flight for any region
\* key, whichever loading paths requested it.
OneFetchInFlightPerKey == \A key \in Keys : InFlight(key) <= 1

\* C3: once cancelLazyLoading has been called while a drain is running, that
\* drain dispatches no further boundary fetch, and after a call that only
\* cancels (zoom-out exit, pan outside every DMA) isLoading is false.
CancelStopsDispatch ==
  [][/\ \A id \in DrainIds :
          (Active(drains[id]) /\ drains[id].cancelled /\ Active(drains'[id])
             /\ drains'[id].cancelled)
            => drains'[id].log = drains[id].log
     /\ (lastOp'.op = "handleViewportChange"
           /\ lastOp'.branch \in {"exit", "outside"})
          => ~lazyLoadingState'.isLoading]_vars

\* C4: at most one run of processLoadingQueue is active at any time.
SingleDrain == Cardinality(ActiveDrains) <= 1

\* C5: within one drain every fetch of a high-priority job is dispatched
\* before any fetch of a medium-priority job, and every fetch of a
\* medium-priority job before any fetch of a low-priority job.
DispatchInPriorityOrder ==
  \A id \in ActiveDrains :
    \A m, n \in 1..Len(drains[id].log) :
      m < n => /\ drains[id].log[n] = "high" => drains[id].log[m] = "high"
               /\ drains[id].log[n] = "medium" => drains[id].log[m] # "low"

\* a drain that has dispatched a high, then a medium, then a low job
ThreeClassesDispatched ==
  \E id \in ActiveDrains : drains[id].log = <<"high", "medium", "low">>

ClientKeys == {countyKey(client.counties[n]) : n \in 1..Len(client.counties)}

NavigationOps ==
  {"handleViewportChange", "handleDMAClick", "timer", "handleResetDMAZoom"}

\* C7: no navigation transition (viewport change of any branch, DMA click
\* and its timers, reset) changes the selected counties.
NavigationKeepsSelection ==
  [][lastOp'.op \in NavigationOps => selectedCounties' = selectedCounties]_vars

\* a transition away from the DMA was made while a county was selected
LeftWithSelection ==
  /\ lastOp.op \in NavigationOps
  /\ lastOp.branch \in {"exit", "switch", "outside", "reset"}
  /\ selectedCounties # <<>>

\* the world as laid out above, read off the map rather than computed: the
\* view centers lying inside each DMA and the counties lying inside it
CentersInside == [A |-> {<<2, 2>>}, B |-> {<<14, 4>>}]
CountiesInside == [A |-> {<<"a1", "S">>, <<"a2", "S">>}, B |-> {<<"b1", "S">>}]

\* key is resolved, being fetched, or queued exactly once, in the next state
Requested(key) ==
  \/ key \in countyBoundaries'
  \/ InFlight(key)' >= 1
  \/ Cardinality({n \in 1..Len(loadingQueue') :
                    loadingQueue'[n].countyKey = key}) = 1

\* C8: a viewport change at zoom >= 8 with its center inside DMA R, arriving
\* while not zoomed to a DMA, leaves selectedDMA = R, isZoomedToDMA and
\* showCountiesInDMA true, and every county of R resolved, being fetched or
\* queued once; when nothing was loaded or queued before, the queue holds
\* exactly one job per county of R.
ZoomInDiscovery ==
  [][\A R \in DMAIds :
       (/\ ~isZoomedToDMA
        /\ lastOp'.op = "handleViewportChange"
        /\ viewport'.zoom >= ZoomEnter
        /\ viewport'.center \in CentersInside[R])
       => /\ selectedDMA' = R /\ isZoomedToDMA' /\ showCountiesInDMA'
          /\ \A key \in CountiesInside[R] : Requested(key)
          /\ (/\ loadingQueue = <<>>
              /\ CountiesInside[R]
                   \cap (countyBoundaries \cup loadingBoundaries \cup cache) = {})
             => /\ QueueKeys(loadingQueue') = CountiesInside[R]
                /\ Len(loadingQueue') = Cardinality(CountiesInside[R])]_vars

\* discovery of DMA A on a fresh map: both of its counties are queued
DiscoveredA ==
  /\ lastOp = Op("handleViewportChange", "enter")
  /\ selectedDMA = "A" /\ isZoomedToDMA /\ showCountiesInDMA
  /\ QueueKeys(loadingQueue) = CountiesInside["A"]
  /\ Len(loadingQueue) = 2

\* C9: a viewport change at zoom >= 8 with its center inside DMA R, arriving
\* while zoomed to another DMA, makes R the selected DMA with the counties
\* still shown and every county of R resolved, being fetched or queued once,
\* and in the step that follows the drain that was loading the previous
\* DMA's counties dispatches no fetch.
PanAcrossBoundary ==
  [][/\ \A R \in DMAIds :
          (/\ isZoomedToDMA /\ selectedDMA \notin {None, R}
           /\ lastOp'.op = "handleViewportChange"
           /\ viewport'.zoom >= ZoomEnter
           /\ viewport'.center \in CentersInside[R])
          => /\ selectedDMA' = R /\ isZoomedToDMA' /\ showCountiesInDMA'
             /\ \A key \in CountiesInside[R] : Requested(key)
     /\ lastOp = Op("handleViewportChange", "switch")
          => \A id \in DrainIds :
               (Active(drains[id]) /\ drains[id].cancelled
                  /\ Active(drains'[id]) /\ drains'[id].cancelled)
               => drains'[id].waiting \subseteq drains[id].waiting]_vars

\* C10: a viewport change at zoom < 6 arriving while zoomed to a DMA with its
\* counties shown leaves selectedDMA none, isZoomedToDMA and
\* showCountiesInDMA false, and the loading queue empty.
ZoomOutExit ==
  [][(/\ isZoomedToDMA /\ showCountiesInDMA
      /\ lastOp'.op = "handleViewportChange"
      /\ viewport'.zoom < ZoomExit)
     => /\ selectedDMA' = None /\ ~isZoomedToDMA' /\ ~showCountiesInDMA'
        /\ loadingQueue' = <<>>]_vars

\* the exit came while a drain was waiting for a fetch
ExitedWhileLoading ==
  /\ lastOp = Op("handleViewportChange", "exit")
  /\ selectedDMA = None /\ ~isZoomedToDMA /\ ~showCountiesInDMA
  /\ loadingQueue = <<>>
  /\ \E id \in ActiveDrains : drains[id].cancelled /\ drains[id].waiting # {}

\* the view center of the map that lies inside no DMA
CentersOutside == {<<6, 8>>}

CancelledResultDiscarded ==
  [][(/\ lastOp.op = "handleViewportChange"
      /\ lastOp.branch \in {"exit", "outside", "switch"}
      /\ lastOp' = Op("settled", "job")
      /\ \E id \in DrainIds : /\ Active(drains[id]) /\ drains[id].cancelled
                              /\ drains'[id] # drains[id])
     => /\ countyBoundaries' = countyBoundaries
        /\ lazyLoadingState'.loadedCount = lazyLoadingState.loadedCount]_vars

\* the jobs a drain took from the queue when it started
DrainJobs(d) == d.high \o d.medium \o d.low

\* C13: when a fetch of a drain comes back without a boundary, its key is
\* afterwards neither in loadingBoundaries nor in countyBoundaries; when the
\* batch is complete its jobs are gone from the queue; the drain does not
\* return before each of its jobs has been fetched or skipped as known; and
\* a later lazyLoadCountyBoundaries with the key queues it for a new fetch.
FailedFetchLeavesKeyAbsent ==
  [][/\ \A id \in DrainIds, key \in Keys :
          (/\ lastOp' = Op("settled", "job") /\ failures' = failures + 1
           /\ Active(drains[id]) /\ key \in drains[id].waiting
           /\ (~Active(drains'[id]) \/ key \notin drains'[id].waiting))
          => /\ key \notin loadingBoundaries'
             /\ key \notin countyBoundaries'
             /\ drains[id].waiting = {key}
                  => key \notin QueueKeys(loadingQueue')
             /\ ~Active(drains'[id])
                  => \A n \in 1..Len(DrainJobs(drains[id])) :
                       LET k == DrainJobs(drains[id])[n].countyKey IN
                       \/ fetchCount'[k] >= 1
                       \/ k \in drains[id].snapB \cup drains[id].snapL
     /\ \A key \in ClientKeys :
          (/\ lastOp'.op = "lazyLoadCountyBoundaries"
           /\ lastOp'.branch \in {"once", "twice"}
           /\ fetchCount[key] >= 1 /\ InFlight(key) = 0
           /\ key \notin countyBoundaries)
          => \/ fetchCount'[key] = fetchCount[key] + 1
             \/ key \in QueueKeys(loadingQueue')]_vars

\* C14: an entry of countyBoundaries is never removed and never replaced:
\* a key that is present stays present with the same boundary in every
\* later state.
ResolvedEntryKept ==
  [][\A key \in countyBoundaries :
       /\ key \in countyBoundaries'
       /\ boundaryValue'[key] = boundaryValue[key]]_vars

Names(selected) == {selected[n] : n \in 1..Len(selected)}
Position(selected, name) == CHOOSE n \in 1..Len(selected) : selected[n] = name

\* C15: the selection part of selectCounty appends the name when it is not
\* selected and removes it when it is, leaving the other names and their
\* order as they were; toggling a name twice gives back the same set of names.
ToggleAddsOrRemoves ==
  [][/\ lastOp'.op = "selectCounty"
          => IF lastOp'.branch \in Names(selectedCounties)
             THEN selectedCounties' =
                    SelectSeq(selectedCounties,
                              LAMBDA name : name # lastOp'.branch)
             ELSE selectedCounties' = Append(selectedCounties, lastOp'.branch)
     /\ \A name \in CountyNames :
          Names(toggleSelection(toggleSelection(selectedCounties, name), name))
            = Names(selectedCounties)]_vars

\* a name was toggled off while two or more other names stayed selected
ToggledOffAmongOthers ==
  /\ lastOp.op = "selectCounty"
  /\ lastOp.branch \notin Names(selectedCounties)
  /\ Len(selectedCounties) >= 2

\* C16: the selection never holds a name twice, and the names are in the
\* order in which they were selected: every call keeps the order of the names
\* that stay and puts the names it adds behind them.
SelectionUniqueInOrder ==
  [][/\ \A m, n \in 1..Len(selectedCounties') :
          m # n => selectedCounties'[m] # selectedCounties'[n]
     /\ \A a, b \in Names(selectedCounties) \cap Names(selectedCounties') :
          Position(selectedCounties, a) < Position(selectedCounties, b)
            => Position(selectedCounties', a) < Position(selectedCounties', b)
     /\ \A a \in Names(selectedCounties) \cap Names(selectedCounties'),
           b \in Names(selectedCounties') \ Names(selectedCounties) :
          Position(selectedCounties', a) < Position(selectedCounties', b)]_vars

\* two calls of selectMultipleCounties with a repeated name in the second
SelectedInTwoCalls ==
  /\ lastOp.op = "selectMultipleCounties"
  /\ selectedCounties = <<"b1", "a1", "a2", "x1">>

\* the entries of the supplied list whose name is selected
SelectedEntries ==
  {n \in 1..Len(client.counties) :
     client.counties[n].countyName \in Names(selectedCounties)}

RECURSIVE SumSeq(_)
SumSeq(numbers) ==
  IF numbers = <<>> THEN 0 ELSE Head(numbers) + SumSeq(Tail(numbers))

\* the sum of value(n) over the selected entries n
SumOfSelected(value(_)) ==
  SumSeq([n \in 1..Len(client.counties) |->
            IF n \in SelectedEntries THEN value(n) ELSE 0])

\* C17: getSelectedCountiesStats returns null when nothing is selected;
\* when selected counties are in the supplied list, totalRequests,
\* totalConversions and totalCallsConnected are the sums over those entries
\* and avgBid is the sum of their avgBid values divided by their number.
StatsAreSumsAndMean ==
  [][lastOp'.op = "getSelectedCountiesStats"
     => /\ selectedCounties = <<>> => returned'.kind = "null"
        /\ SelectedEntries # {}
             => /\ returned'.kind = "stats"
                /\ returned'.totalRequests =
                     SumOfSelected(
                       LAMBDA n : client.counties[n].aggregatedStats.totalRequests)
                /\ returned'.totalConversions =
                     SumOfSelected(
                       LAMBDA n : client.counties[n].aggregatedStats.totalConversions)
                /\ returned'.totalCallsConnected =
                     SumOfSelected(
                       LAMBDA n : client.counties[n].aggregatedStats.totalCallsConnected)
                /\ returned'.avgBid.den = Cardinality(SelectedEntries)
                /\ returned'.avgBid.num =
                     SumOfSelected(
                       LAMBDA n : client.counties[n].aggregatedStats.avgBid)]_vars

\* the two counties with 100 and 200 requests and bids 10 and 20 are
\* selected: 300 requests and a mean bid of 15
StatsOfTwoCounties ==
  /\ lastOp.op = "getSelectedCountiesStats"
  /\ Len(client.counties) = 2 /\ Names(selectedCounties) = {"a1", "a2", "b1"}
  /\ returned.kind = "stats"
  /\ returned.totalRequests = 300
  /\ returned.avgBid.num = 15 * returned.avgBid.den

\* C18: pointInFeature never throws, and it answers false for a feature
\* without geometry and for one whose geometry has no coordinate pair (no
\* ring, or rings without points)
ContainmentNeverThrows ==
  returned.kind = "pointInFeature" =>
    LET feature == client.features[returned.feature] IN
    /\ returned.value # "TypeError"
    /\ AllCoordinates(feature.geometry) = <<>> => returned.value = "false"

\* the horizontal ray from (x, y) towards +x crosses the edge from a to b:
\* the edge spans y (lower end at or below y, upper end above it) and the
\* point lies strictly left of it
RayCrosses(x, y, a, b) ==
  LET lo == IF a[2] <= b[2] THEN a ELSE b
      hi == IF a[2] <= b[2] THEN b ELSE a
  IN /\ lo[2] <= y /\ y < hi[2]
     /\ (hi[1] - lo[1]) * (y - lo[2]) > (x - lo[1]) * (hi[2] - lo[2])

\* even-odd rule: the ray crosses an odd number of the ring's edges
OddCrossings(point, ring) ==
  Cardinality({i \in 1..Len(ring) :
                 RayCrosses(point[1], point[2], ring[i],
                            ring[IF i = 1 THEN Len(ring) ELSE i - 1])}) % 2 = 1

\* the point lies strictly inside the rectangle whose ring this is
InsideRect(point, ring) ==
  /\ ring[1][1] < point[1] /\ point[1] < ring[3][1]
  /\ ring[1][2] < point[2] /\ point[2] < ring[3][2]
IsRect(ring) ==
  /\ Len(ring) = 5
  /\ ring = Rect(ring[1][1], ring[1][2], ring[3][1], ring[3][2])

\* the first ring of a polygon, if it has one
Exterior(polygon) == IF polygon = <<>> THEN <<>> ELSE <<polygon[1]>>

\* the feature with every interior ring removed
WithoutHoles(feature) ==
  LET g == feature.geometry IN
  IF g.type = "Polygon"
  THEN [feature EXCEPT !.geometry.coordinates = Exterior(g.coordinates)]
  ELSE IF g.type = "MultiPolygon"
  THEN [feature EXCEPT !.geometry.coordinates =
          [p \in 1..Len(g.coordinates) |-> Exterior(g.coordinates[p])]]
  ELSE feature

\* C19: where pointInFeature answers, the answer for a Polygon is the
\* even-odd ray casting result on its first ring (for a rectangular ring:
\* the point lies inside the rectangle), the answer for a MultiPolygon is
\* true iff that holds for the first ring of one of its polygons, and the
\* answer is the same for the feature without its interior rings
ContainsIsEvenOddOnExterior ==
  (returned.kind = "pointInFeature" /\ returned.value # "TypeError") =>
    LET feature == client.features[returned.feature]
        coords == feature.geometry.coordinates
        inside == returned.value = "true"
    IN /\ feature.geometry.type = "Polygon" =>
            /\ inside <=> OddCrossings(client.point, coords[1])
            /\ IsRect(coords[1]) => (inside <=> InsideRect(client.point, coords[1]))
       /\ feature.geometry.type = "MultiPolygon" =>
            /\ inside <=> \E p \in 1..Len(coords) :
                            /\ coords[p] # <<>>
                            /\ OddCrossings(client.point, coords[p][1])
            /\ (\A p \in 1..Len(coords) : coords[p] # <<>> /\ IsRect(coords[p][1]))
                 => (inside <=> \E p \in 1..Len(coords) :
                                  InsideRect(client.point, coords[p][1]))
       /\ pointInFeature(client.point, WithoutHoles(feature)) = returned.value

\* pointInFeature has answered true for a point inside an interior ring of a
\* Polygon
InsideHole(point, polygon) ==
  \E r \in 2..Len(polygon) : InsideRect(point, polygon[r])
ContainedInsideHole ==
  /\ returned.kind = "pointInFeature" /\ returned.value = "true"
  /\ LET feature == client.features[returned.feature] IN
     /\ feature.geometry.type = "Polygon"
     /\ InsideHole(client.point, feature.geometry.coordinates)

\* C20: for every region getProcessedDMAData produces, also one without
\* geometry or without coordinates, the bounding box contains the center:
\* southwest <= center <= northeast in both coordinates
BoundsContainCenter ==
  returned.kind = "getProcessedDMAData" =>
    \A n \in 1..Len(returned.value) : \A k \in 1..2 :
      LET region == returned.value[n] IN
      /\ LessEq(region.bounds.southwest[k], region.center[k])
      /\ LessEq(region.center[k], region.bounds.northeast[k])

\* the class the priority rule gives a point: high inside the viewport
\* expanded by the padding and nearer to its center than the threshold,
\* medium inside it otherwise, low outside; medium without a viewport
ExpectedPriority(point, vp) ==
  IF vp = NoViewport THEN "medium"
  ELSE LET sw == vp[1].bounds.sw
           ne == vp[1].bounds.ne
           dx == point[1] - vp[1].center[1]
           dy == point[2] - vp[1].center[2]
           inside == /\ sw[1] - Padding <= point[1] /\ point[1] <= ne[1] + Padding
                     /\ sw[2] - Padding <= point[2] /\ point[2] <= ne[2] + Padding
           near == dx * dx + dy * dy < HighDistance * HighDistance
       IN IF inside /\ near THEN "high" ELSE IF inside THEN "medium" ELSE "low"

\* every job in the queue and in the buckets of the running drains
AllJobs ==
  {loadingQueue[n] : n \in 1..Len(loadingQueue)}
    \cup UNION {{DrainJobs(drains[id])[n] : n \in 1..Len(DrainJobs(drains[id]))}
                  : id \in ActiveDrains}

\* C21: a job submitted with a viewport is high iff its point is inside the
\* padded viewport and nearer than the threshold, medium iff inside and not
\* nearer, low otherwise; a job submitted without a viewport is medium
ClassifiedOnSubmit ==
  \A job \in AllJobs :
    job.priority = ExpectedPriority(job.coordinates, client.viewport)

\* a submit with a viewport has produced jobs of all three classes
ClassifiedInThreeClasses ==
  /\ client.viewport # NoViewport
  /\ {job.priority : job \in AllJobs} = {"high", "medium", "low"}

\* C22: a click on the DMA that is already active while drilled in changes
\* neither the navigation state and the pending timers nor the hook's state
\* (queue, drains, boundaries, selection)
ClickOnActiveIsNoOp ==
  [][\A dmaId \in DMAIds :
       (isZoomedToDMA /\ selectedDMA = dmaId /\ handleDMAClick(dmaId))
         => UNCHANGED <<navVars, hookVars>>]_vars

\* the active DMA was clicked again while a drain was running for it and
\* its counties were shown
ClickedActiveWhileLoading ==
  /\ lastOp = Op("handleDMAClick", "same")
  /\ ActiveDrains # {}
  /\ showCountiesInDMA

\* keys for which a network request is sent in this step
NewlyFetched == {key \in Keys : fetchCount'[key] > fetchCount[key]}

\* a click on another DMA B while drilled in leaves the active DMA and the
\* hook alone and only schedules the first callback
OtherClickSchedules ==
  \A B \in DMAIds :
    (isZoomedToDMA /\ selectedDMA # B /\ handleDMAClick(B))
      => /\ UNCHANGED <<selectedDMA, isZoomedToDMA, hookVars>>
         /\ \E t \in BagToSet(timers') :
              /\ t.kind = "activate" /\ t.dma = B
              /\ timers' = timers (+) SetToBag({t})

\* the first callback makes B active and drilled in, submits nothing and
\* schedules the second callback
FirstCallbackActivates ==
  \A t \in BagToSet(timers) :
    (t.kind = "activate" /\ timerActivate(t))
      => /\ selectedDMA' = t.dma /\ isZoomedToDMA'
         /\ UNCHANGED hookVars
         /\ timers' = (timers (-) SetToBag({t}))
                        (+) SetToBag({[t EXCEPT !.kind = "load"]})

\* the second callback queues or fetches counties of B only
SecondCallbackSubmits ==
  \A t \in BagToSet(timers) :
    (t.kind = "load" /\ timerLoad(t))
      => /\ timers' = timers (-) SetToBag({t})
         /\ (QueueKeys(loadingQueue') \cup NewlyFetched)
               \ QueueKeys(loadingQueue) \subseteq CountiesInside[t.dma]

\* a callback that submits the loads of B is scheduled only by a step that
\* leaves B the active DMA
LoadScheduledForActive ==
  \A t \in BagToSet(timers') :
    (t.kind = "load" /\ CopiesIn(t, timers') > CopiesIn(t, timers))
      => selectedDMA' = t.dma /\ isZoomedToDMA'

\* C23: a click on another DMA B while drilled in proceeds in this order:
\* the click only schedules the first callback (the map is sent to the full
\* extent), the first callback makes B active and schedules the second, the
\* second submits the loads of B's counties; the loads of B are never
\* scheduled before B is the active DMA.
ClickOnOtherInOrder ==
  [][OtherClickSchedules /\ FirstCallbackActivates
       /\ SecondCallbackSubmits /\ LoadScheduledForActive]_vars

\* DMA A was entered and its county a1 requested, B was clicked, and the
\* second callback for B has run with B active: b1 is being fetched
LoadedOtherAfterActivation ==
  /\ events = 2
  /\ lastOp = Op("timer", "load")
  /\ selectedDMA = "B" /\ isZoomedToDMA /\ showCountiesInDMA
  /\ fetchCount[<<"a1", "S">>] >= 1
  /\ InFlight(<<"b1", "S">>) >= 1

StoredWithinFiveMinutes(f) ==
  /\ apiCache[generateKey(f)] # <<>>
  /\ now - apiCache[generateKey(f)][1].timestamp <= 5

QueueHasUniqueKeys(queue) ==
  \A m, n \in 1..Len(queue) : queue[m].countyKey = queue[n].countyKey => m = n

\* the keys of the queue in queue order
KeyOrder(queue) == [n \in 1..Len(queue) |-> queue[n].countyKey]

\* the jobs of a submission that pass the filter of lazyLoadCountyBoundaries
Resubmitted(s) ==
  {n \in 1..Len(s.counties) :
     countyKey(s.counties[n]) \notin countyBoundaries \cup loadingBoundaries}

\* C26: the queue never holds two jobs with the same key; a submit leaves
\* the jobs that stay queued in their order, with new keys behind them, and
\* a job that was queued and is submitted again has, while it stays queued,
\* the priority and the distance of the new submission
QueueKeepsOneJobPerKey ==
  [][/\ QueueHasUniqueKeys(loadingQueue')
     /\ \A s \in Submissions :
          CallLazyLoadCountyBoundaries(s)
            => /\ SelectSeq(KeyOrder(loadingQueue),
                            LAMBDA key : key \in QueueKeys(loadingQueue'))
                   = SubSeq(KeyOrder(loadingQueue'), 1,
                            Cardinality(QueueKeys(loadingQueue)
                                          \cap QueueKeys(loadingQueue')))
               /\ \A n \in Resubmitted(s) : \A m \in 1..Len(loadingQueue') :
                    loadingQueue'[m].countyKey = countyKey(s.counties[n])
                      => /\ loadingQueue'[m].priority =
                              ExpectedPriority(s.counties[n].coordinates, s.viewport)
                         /\ loadingQueue'[m].distance =
                              IF s.viewport = NoViewport THEN NoDistance
                              ELSE calculateDistance(s.counties[n].coordinates,
                                                     s.viewport[1].center)]_vars

\* x1 is queued in third place without a distance, behind a1 and a2 and
\* before the counties submitted with it the second time, and has taken the
\* class and the distance of the second submission
ResubmittedInPlace ==
  /\ Len(loadingQueue) = 6
  /\ loadingQueue[3].countyKey = <<"x1", "S">>
  /\ loadingQueue[3].priority = "high"
  /\ loadingQueue[3].distance = 0
  /\ loadingQueue[4].countyKey = <<"x4", "S">>

\* the lazy loading interface when every fetch is answered and every pause
\* between two batches ends
FetchesSettle ==
  \E id \in DrainIds, key \in Keys, ok \in BOOLEAN : JobFetchSettles(id, key, ok)
DelaysElapse == \E id \in DrainIds : DelayElapses(id)
FairQueue == SpecQueue /\ WF_vars(FetchesSettle) /\ WF_vars(DelaysElapse)

\* the same interface under a caller that submits one list of three
\* counties without a viewport (a medium bucket of two batches)
DrainSubmissions ==
  {s \in Submissions : s.viewport = NoViewport /\ Len(s.counties) = 3}
NextDrain ==
  \/ \E s \in DrainSubmissions : CallLazyLoadCountyBoundaries(s)
  \/ CallCancelLazyLoading
  \/ FetchesSettle
  \/ DelaysElapse
FairDrain ==
  Init /\ [][NextDrain]_vars /\ WF_vars(FetchesSettle) /\ WF_vars(DelaysElapse)

\* position of the job with this key in the queue
QueuePosition(queue, key) == CHOOSE n \in 1..Len(queue) : queue[n].countyKey = key

\* C27: in every bucket of a drain the jobs stand, and so are dispatched,
\* in ascending order of distance, a job without a distance after every job
\* that has one, and jobs of equal distance in the order they had in the
\* queue when the drain started
DispatchedByDistance ==
  [][\A id \in DrainIds : \A phase \in {"high", "medium", "low"} :
       Active(drains'[id]) =>
         LET bucket == Bucket(drains'[id], phase) IN
         \A m, n \in 1..Len(bucket) :
           m < n =>
             /\ bucket[n].distance = NoDistance \/ bucket[m].distance # NoDistance
             /\ (bucket[m].distance # NoDistance /\ bucket[n].distance # NoDistance)
                  => bucket[m].distance <= bucket[n].distance
             /\ (/\ ~Active(drains[id])
                 /\ bucket[m].distance = bucket[n].distance
                 /\ {bucket[m].countyKey, bucket[n].countyKey}
                      \subseteq QueueKeys(loadingQueue'))
                  => QueuePosition(loadingQueue', bucket[m].countyKey)
                       < QueuePosition(loadingQueue', bucket[n].countyKey)]_vars

\* the drain is at another batch or another bucket after the step
DrainAdvances(id) ==
  /\ Active(drains[id])
  /\ Active(drains'[id])
  /\ drains'[id].phase # drains[id].phase \/ drains'[id].i # drains[id].i

\* the fetches of a drain in flight belong to its current batch and are no
\* more than the batch size of its bucket
InFlightWithinBatch(d) ==
  /\ Cardinality(d.waiting) <= batchSize(d.phase)
  /\ d.waiting \subseteq QueueKeys(Batch(d))
  /\ d.phase = "high" => Cardinality(d.waiting) <= 3
  /\ d.phase = "medium" => Cardinality(d.waiting) <= 2
  /\ d.phase = "low" => Cardinality(d.waiting) <= 1

\* C28: a drain has at most 3, 2, 1 fetches in flight in the high, medium,
\* low bucket, all of its current batch, and it goes to the next batch or
\* bucket only in the step in which the last fetch of the batch settles
Backpressure ==
  [][\A id \in DrainIds :
       /\ Active(drains'[id]) => InFlightWithinBatch(drains'[id])
       /\ DrainAdvances(id) =>
            /\ Cardinality(drains[id].waiting) <= 1
            /\ drains[id].pc = "await" =>
                 \E key \in drains[id].waiting :
                    responses'[key] + failures' > responses[key] + failures
            /\ drains[id].waiting \cap drains'[id].waiting = {}]_vars

\* the second batch of a high bucket of four is in flight
SecondHighBatchInFlight ==
  \E id \in DrainIds :
    /\ Active(drains[id])
    /\ drains[id].phase = "high"
    /\ drains[id].i = HighBatch
    /\ drains[id].waiting # {}

\* the last fetch of a batch settles, found or not: no job of the batch is
\* in the queue afterwards
BatchLeavesQueue ==
  \A id \in DrainIds : \A key \in Keys : \A ok \in BOOLEAN :
    (/\ Active(drains[id])
     /\ drains[id].waiting = {key}
     /\ JobFetchSettles(id, key, ok))
      => QueueKeys(Batch(drains[id])) \cap QueueKeys(loadingQueue') = {}

\* a key enters the queue only in a call of lazyLoadCountyBoundaries with a
\* list that holds it
QueuedOnlyBySubmit ==
  \A key \in QueueKeys(loadingQueue') \ QueueKeys(loadingQueue) :
    \E s \in Submissions :
      /\ CallLazyLoadCountyBoundaries(s)
      /\ \E n \in 1..Len(s.counties) : countyKey(s.counties[n]) = key

\* C29: a job leaves the queue when the fetches of its batch have completed,
\* whether they found a boundary or not, and a drain waits only while one
\* of them is in flight; cancelLazyLoading empties the queue; a job comes
\* into the queue only through a call of lazyLoadCountyBoundaries
JobLeavesQueue ==
  [][/\ BatchLeavesQueue
     /\ lastOp' = Op("cancelLazyLoading", "call") => loadingQueue' = <<>>
     /\ QueuedOnlyBySubmit
     /\ \A id \in DrainIds :
          (Active(drains'[id]) /\ drains'[id].pc = "await")
            => drains'[id].waiting # {}]_vars

\* a job whose fetch failed has left the queue
FailedJobLeftQueue ==
  /\ lastOp = Op("settled", "job")
  /\ failures > 0
  /\ \E key \in Keys :
       /\ fetchCount[key] > 0
       /\ key \notin cache
       /\ key \notin loadingBoundaries
       /\ key \notin QueueKeys(loadingQueue)

\* C30: lazyLoadCountyBoundaries queues no county and a drain fetches no
\* county whose boundary is in countyBoundaries or whose key is in
\* loadingBoundaries before the step
NoLoadOfKnownBoundary ==
  [][\A key \in Keys :
       key \in countyBoundaries \cup loadingBoundaries
         => /\ fetchCount'[key] = fetchCount[key]
            /\ key \in QueueKeys(loadingQueue')
                 => key \in QueueKeys(loadingQueue)]_vars

\* the job with the class and the distance of the submission rule for the
\* viewport info
Rescored(job, info) ==
  [countyKey |-> job.countyKey,
   coordinates |-> job.coordinates,
   priority |-> ExpectedPriority(job.coordinates, <<info>>),
   distance |-> (job.coordinates[1] - info.center[1])
                   * (job.coordinates[1] - info.center[1])
                + (job.coordinates[2] - info.center[2])
                   * (job.coordinates[2] - info.center[2])]

\* C31: a viewport change gives every job that stays in the queue the class
\* and the distance of the submission rule for the new viewport; when the
\* change does nothing else (no enter, switch, exit or pan outside), the
\* queue keeps its jobs in their order and the boundaries, the keys being
\* loaded, the progress counters and the drains are unchanged
UpdatePrioritiesRescores ==
  [][lastOp'.op = "handleViewportChange" =>
       LET info == viewportInfo(viewport') IN
       /\ \A m \in 1..Len(loadingQueue') : \A n \in 1..Len(loadingQueue) :
            loadingQueue'[m].countyKey = loadingQueue[n].countyKey
              => loadingQueue'[m] = Rescored(loadingQueue[n], info)
       /\ lastOp'.branch = "none" =>
            /\ loadingQueue' = [n \in 1..Len(loadingQueue) |->
                                  Rescored(loadingQueue[n], info)]
            /\ UNCHANGED <<countyBoundaries, boundaryValue, loadingBoundaries,
                           lazyLoadingState, isProcessingQueue, drains,
                           fetchCount, selectedCounties>>]_vars

\* a viewport change that did nothing else has rescored a queue whose jobs
\* were submitted for a viewport elsewhere
RescoredWhileQueued ==
  /\ lastOp = Op("handleViewportChange", "none")
  /\ loadingQueue # <<>>
  /\ \E id \in DrainIds :
       /\ Active(drains[id])
       /\ \E n \in 1..Len(loadingQueue) : \E m \in 1..Len(DrainJobs(drains[id])) :
            /\ DrainJobs(drains[id])[m].countyKey = loadingQueue[n].countyKey
            /\ DrainJobs(drains[id])[m].priority # loadingQueue[n].priority

\* C32: totalCount is the largest number of jobs the queue has held in the
\* current drain: when a drain starts it is the length of the queue the
\* drain starts with, while the drain runs (and is not cancelled) it is
\* raised by a submit to the length of the queue and never lowered
TotalCountIsHighWaterMark ==
  [][\A id \in DrainIds :
       (Active(drains'[id]) /\ ~drains'[id].cancelled)
         => IF Active(drains[id])
            THEN /\ lazyLoadingState'.totalCount >= lazyLoadingState.totalCount
                 /\ lazyLoadingState'.totalCount =
                      Max2(lazyLoadingState.totalCount,
                           IF lastOp'.op = "lazyLoadCountyBoundaries"
                           THEN Len(loadingQueue') ELSE 0)
            ELSE lazyLoadingState'.totalCount = Len(DrainJobs(drains'[id]))]_vars

QueuedJobIsProcessed ==
  \A key \in Keys :
    (key \in QueueKeys(loadingQueue)) ~> (key \notin QueueKeys(loadingQueue))

\* C35: the progress descriptor never shows more boundaries loaded than
\* jobs counted
LoadedWithinTotal ==
  lazyLoadingState.loadedCount <= lazyLoadingState.totalCount

\* C36: after a viewport change that reports a zoom below ZoomExit the map
\* is not drilled in
ZoomOutLeavesDrillDown ==
  [][\A v \in Viewports :
       (v.zoom < ZoomExit /\ handleViewportChange(v)) => ~isZoomedToDMA']_vars

\* C37: when fetches settle and delays end, a state with a running drain
\* or a key in loadingBoundaries is followed by one with neither (every
\* drain ends and every key leaves loadingBoundaries, also after fetches
\* that found nothing), and whenever no drain runs the processing flag and
\* isLoading are false
DrainsTerminate ==
  /\ (ActiveDrains # {} \/ loadingBoundaries # {})
       ~> (ActiveDrains = {} /\ loadingBoundaries = {})
  /\ [](ActiveDrains = {} =>
          ~isProcessingQueue /\ ~lazyLoadingState.isLoading)

\* a drain with a fetch that found nothing has ended
DrainEndedAfterFailure ==
  /\ lastOp = Op("settled", "job")
  /\ failures > 0
  /\ ActiveDrains = {}
  /\ loadingBoundaries = {}
  /\ ~isProcessingQueue /\ ~lazyLoadingState.isLoading

\* C38: when no lead-metrics fetch is in flight and the last answer was no
\* error, the data shown is the response stored for the current filters
LatestFiltersWin ==
  (/\ mapRequests = EmptyBag
   /\ mapData.error = NoError
   /\ apiCacheGet(apiCache, filters, now).data # <<>>)
    => mapData.data = apiCacheGet(apiCache, filters, now).data

\* C39: selection goes by name: selectCounty toggles, and deselectCounty
\* unselects, every entry of the caller's list with that name at once, two
\* entries with the same name are selected alike, and the statistics count
\* every entry whose name is selected
SelectedByNameAlone ==
  [][/\ \A name \in CountyNames :
          /\ CallSelectCounty(name, "")
               => \A n \in 1..Len(client.counties) :
                    client.counties[n].countyName = name
                      => (isCountySelected(HookState, name)
                            <=> name \notin Names(selectedCounties'))
          /\ CallDeselectCounty(name) => name \notin Names(selectedCounties')
     /\ lastOp'.op = "getSelectedCountiesStats"
          => \A m, n \in 1..Len(client.counties) :
               (/\ m # n
                /\ client.counties[m].countyName = client.counties[n].countyName
                /\ isCountySelected(HookState, client.counties[m].countyName))
                 => /\ returned'.kind = "stats"
                    /\ returned'.countyCount =
                         Cardinality({k \in 1..Len(client.counties) :
                                        isCountySelected(
                                          HookState,
                                          client.counties[k].countyName)})
                    /\ returned'.countyCount >= 2]_vars

\* the statistics were taken over a list with two entries named a1 while
\* a1 alone was selected by selectCounty: both are counted
BothNamesakesCounted ==
  /\ lastOp.op = "getSelectedCountiesStats"
  /\ selectedCounties = <<"a1">>
  /\ Len(client.counties) = 4
  /\ returned.kind = "stats"
  /\ returned.countyCount = 2
  /\ returned.totalRequests = 140

====
